---- MODULE Spec2Model ----
(***************************************************************************)
(* Hush: notification history store (storage.py) and delivery policy       *)
(* (__init__.py).                                                          *)
(*                                                                         *)
(* Time is counted in ticks since day 0, 00:00:00 UTC; a second has        *)
(* TicksPerSecond ticks, so an instant has a whole-second part and a       *)
(* fractional part, as datetime has seconds and microseconds.              *)
(***************************************************************************)
EXTENDS Integers, Sequences, FiniteSets, TLC

VARIABLES
    db,        \* NotificationStore._db: "closed" (None) or "open" (a connection)
    rows,      \* the rows of table notifications
    nextId,    \* how many ids uuid4 has handed out
    now,       \* the wall clock, datetime.now(UTC), in ticks
    options,   \* entry.options: the settings that are set
    entryData, \* entry.data: the delivery target
    registry,  \* the entity registry: its entry for each registered entity id
    tz,        \* offset of the host's local zone from UTC, in ticks
    hass,      \* the host: what hass.data holds under DOMAIN, and whether the
               \* notify service is registered: [data, service]
    tasks,     \* the coroutines in flight: the frame of each, with its position
    txn,       \* the connection's open transaction: <<>> when there is none,
               \* else <<the rows as they were when it began>>
    last,      \* the last call made: [op, args, ret, calls]
    streak     \* history: is_duplicate calls for the last inserted message
               \* made inside the window since that insert: [k, ok]

vars == <<db, rows, nextId, now, options, entryData, registry, tz, hass, tasks, txn, last, streak>>

----------------------------------------------------------------------------
\* Bounds of the model

MaxAdds == 2
MaxCollapsed == 3
TicksPerSecond == 2

\* Constants of the program

ONCE_PER_HOUR_WINDOW == 60
DEDUP_WINDOW == 5
RETENTION_DAYS == 7
DEFAULT_LIMIT == 50

----------------------------------------------------------------------------
\* Values

None == "<None>"

Category == {"SAFETY", "SECURITY", "DEVICE", "MOTION", "INFO"}

CategoryBehavior ==
    {"ALWAYS_NOTIFY", "NOTIFY_RESPECT_QUIET", "NOTIFY_ONCE_PER_HOUR",
     "LOG_ONLY", "NOTIFY_WITH_DEDUP"}

\* Category.<member>.value: the string stored in column category
CategoryValue(c) ==
    CASE c = "SAFETY" -> "safety"
      [] c = "SECURITY" -> "security"
      [] c = "DEVICE" -> "device"
      [] c = "MOTION" -> "motion"
      [] c = "INFO" -> "info"

\* Faulty variant of CategoryOf: an unknown string falls back to INFO
CategoryOfOrInfo(s) ==
    IF \E c \in Category : CategoryValue(c) = s
    THEN CHOOSE c \in Category : CategoryValue(c) = s
    ELSE "INFO"

\* Category(<string>): the member whose value is the string; ValueError otherwise
CategoryOf(s) ==
    IF \E c \in Category : CategoryValue(c) = s
    THEN CHOOSE c \in Category : CategoryValue(c) = s
    ELSE "ValueError"

\* CategoryBehavior.<member>.value
CategoryBehaviorValue(b) ==
    CASE b = "ALWAYS_NOTIFY" -> "always_notify"
      [] b = "NOTIFY_RESPECT_QUIET" -> "notify_respect_quiet"
      [] b = "NOTIFY_ONCE_PER_HOUR" -> "notify_once_per_hour"
      [] b = "LOG_ONLY" -> "log_only"
      [] b = "NOTIFY_WITH_DEDUP" -> "notify_with_dedup"

\* CategoryBehavior(<string>): the member whose value is the string;
\* ValueError otherwise
CategoryBehaviorOf(s) ==
    IF \E b \in CategoryBehavior : CategoryBehaviorValue(b) = s
    THEN CHOOSE b \in CategoryBehavior : CategoryBehaviorValue(b) = s
    ELSE "ValueError"

\* int(delivered) and bool(row["delivered"])
IntOfBool(b) == IF b THEN 1 ELSE 0

BoolOfInt(i) == i # 0

----------------------------------------------------------------------------
\* Clock and ISO-8601 text

TicksPerMinute == 60 * TicksPerSecond

TicksPerHour == 60 * TicksPerMinute

TicksPerDay == 24 * TicksPerHour

\* timedelta(minutes=m), timedelta(days=d)
Minutes(m) == m * TicksPerMinute

Days(d) == d * TicksPerDay

DayOf(t) == t \div TicksPerDay

HourOf(t) == (t % TicksPerDay) \div TicksPerHour

MinuteOf(t) == (t % TicksPerHour) \div TicksPerMinute

SecondOf(t) == (t % TicksPerMinute) \div TicksPerSecond

FracOf(t) == t % TicksPerSecond

\* datetime.isoformat() of a UTC instant, as the sequence of its fixed-width
\* fields: date, hour, minute, second, then either the "+" (code 43) of the
\* zone suffix "+00:00", or, when the fractional part is not zero, "." (code
\* 46) and the fraction.
IsoFormat(t) ==
    IF FracOf(t) = 0
    THEN <<DayOf(t), HourOf(t), MinuteOf(t), SecondOf(t), 43>>
    ELSE <<DayOf(t), HourOf(t), MinuteOf(t), SecondOf(t), 46, FracOf(t)>>

\* datetime.fromisoformat()
FromIso(s) ==
    Days(s[1]) + s[2] * TicksPerHour + Minutes(s[3]) + s[4] * TicksPerSecond
        + (IF Len(s) = 6 THEN s[6] ELSE 0)

\* a < b for TEXT values: SQLite's BINARY collation, first difference decides
\* and a proper prefix is smaller
RECURSIVE StrLess(_, _)
StrLess(a, b) ==
    IF b = <<>> THEN FALSE
    ELSE IF a = <<>> THEN TRUE
    ELSE IF Head(a) # Head(b) THEN Head(a) < Head(b)
    ELSE StrLess(Tail(a), Tail(b))

StrGeq(a, b) == ~StrLess(a, b)

\* Faulty variant of StartOfDay: the last 24 hours instead of the current day
StartOfDayRolling(t) == t - Days(1)

\* datetime.now(UTC).replace(hour=0, minute=0, second=0, microsecond=0)
StartOfDay(t) == Days(DayOf(t))

----------------------------------------------------------------------------
\* The store: table notifications behind one connection

\* One call and what it returned; calls lists the store lookups it made
Call(op, args, ret, calls) ==
    [op |-> op, args |-> args, ret |-> ret, calls |-> calls, raised |-> FALSE]

\* One call that raised exception exc instead of returning
Raise(op, args, exc, calls) ==
    [op |-> op, args |-> args, ret |-> exc, calls |-> calls, raised |-> TRUE]

\* SQLite's implicit rowid of a new row: one more than the largest in the table
NewRowid(table) ==
    IF table = {} THEN 1
    ELSE 1 + (CHOOSE n \in {r.rowid : r \in table} : \A r \in table : r.rowid <= n)

\* Faulty variant of NewRow: column delivered left at its default, 1
NewRowDelivered(table, id, t, message, title, category, entity_id, delivered) ==
    [rowid |-> NewRowid(table),
     id |-> id,
     timestamp |-> IsoFormat(t),
     message |-> message,
     title |-> title,
     category |-> CategoryValue(category),
     entity_id |-> entity_id,
     delivered |-> 1,
     collapsed_count |-> 1]

\* The row INSERTed by async_add_notification at instant t
NewRow(table, id, t, message, title, category, entity_id, delivered) ==
    [rowid |-> NewRowid(table),
     id |-> id,
     timestamp |-> IsoFormat(t),
     message |-> message,
     title |-> title,
     category |-> CategoryValue(category),
     entity_id |-> entity_id,
     delivered |-> IntOfBool(delivered),
     collapsed_count |-> 1]

\* Faulty variant of CleanupOld: a record exactly at the horizon goes too
CleanupOldInclusive(table, t) ==
    {r \in table : StrLess(IsoFormat(t - Days(RETENTION_DAYS)), r.timestamp)}

\* _async_cleanup_old: DELETE FROM notifications WHERE timestamp < cutoff
CleanupOld(table, t) ==
    {r \in table : ~StrLess(r.timestamp, IsoFormat(t - Days(RETENTION_DAYS)))}

\* The table after async_add_notification: the INSERT, then the sweep
TableAfterAdd(table, id, t, message, title, category, entity_id, delivered) ==
    CleanupOld(
        table \cup {NewRow(table, id, t, message, title, category, entity_id, delivered)},
        t)

\* Faulty variant of RowToRecord: bool() of the column's text, true for "0" too
RowToRecordTruthy(row) ==
    [id |-> row.id,
     timestamp |-> FromIso(row.timestamp),
     message |-> row.message,
     title |-> row.title,
     category |-> CategoryOf(row.category),
     entity_id |-> row.entity_id,
     delivered |-> TRUE,
     collapsed_count |-> row.collapsed_count]

\* _row_to_record
RowToRecord(row) ==
    [id |-> row.id,
     timestamp |-> FromIso(row.timestamp),
     message |-> row.message,
     title |-> row.title,
     category |-> CategoryOf(row.category),
     entity_id |-> row.entity_id,
     delivered |-> BoolOfInt(row.delivered),
     collapsed_count |-> row.collapsed_count]

\* Faulty variant of FirstByTimestampDesc: ORDER BY timestamp ASC
FirstByTimestampAsc(S) ==
    CHOOSE r \in S : \A q \in S :
        \/ q = r
        \/ StrLess(r.timestamp, q.timestamp)
        \/ (q.timestamp = r.timestamp /\ q.rowid > r.rowid)

\* ORDER BY timestamp DESC, as the scan of idx_timestamp (timestamp DESC)
\* yields it: equal timestamps come in rowid order
FirstByTimestampDesc(S) ==
    CHOOSE r \in S : \A q \in S :
        \/ q = r
        \/ StrLess(q.timestamp, r.timestamp)
        \/ (q.timestamp = r.timestamp /\ q.rowid > r.rowid)

RECURSIVE OrderByTimestampDesc(_)
OrderByTimestampDesc(S) ==
    IF S = {} THEN <<>>
    ELSE LET r == FirstByTimestampDesc(S)
         IN <<r>> \o OrderByTimestampDesc(S \ {r})

\* LIMIT n
Limit(seq, n) == SubSeq(seq, 1, IF n < Len(seq) THEN n ELSE Len(seq))

\* What async_get_recent returns
RecentRecords(table, limit) ==
    LET sel == Limit(OrderByTimestampDesc(table), limit)
    IN [i \in 1..Len(sel) |-> RowToRecord(sel[i])]

\* What async_get_today_stats returns at instant t (SUM over no rows is NULL,
\* which "or 0" turns into 0)
TodayStats(table, t) ==
    LET today == {r \in table : StrGeq(r.timestamp, IsoFormat(StartOfDay(t)))}
    IN [total |-> Cardinality(today),
        safety_count |-> Cardinality({r \in today : r.category = "safety"}),
        delivered_count |-> Cardinality({r \in today : r.delivered = 1})]

\* Faulty variant of DuplicateMatches: the SELECT matches delivered rows only
DuplicateMatchesDelivered(table, t, message, window_minutes) ==
    {r \in table :
        /\ r.message = message
        /\ r.delivered = 1
        /\ StrGeq(r.timestamp, IsoFormat(t - Minutes(window_minutes)))}

\* The rows the SELECT of async_is_duplicate matches at instant t
DuplicateMatches(table, t, message, window_minutes) ==
    {r \in table :
        /\ r.message = message
        /\ StrGeq(r.timestamp, IsoFormat(t - Minutes(window_minutes)))}

\* Faulty variant of DuplicateRow: the oldest match instead of the newest
DuplicateRowOldest(table, t, message, window_minutes) ==
    LET S == DuplicateMatches(table, t, message, window_minutes)
    IN IF S = {} THEN {}
       ELSE {CHOOSE r \in S : \A q \in S :
                \/ q = r
                \/ StrLess(r.timestamp, q.timestamp)
                \/ (q.timestamp = r.timestamp /\ r.rowid < q.rowid)}

\* ... ORDER BY timestamp DESC LIMIT 1, as the backward scan of
\* idx_message_timestamp (message, timestamp) yields it: of equal timestamps
\* the row with the largest rowid comes first
DuplicateRow(table, t, message, window_minutes) ==
    LET S == DuplicateMatches(table, t, message, window_minutes)
    IN IF S = {} THEN {}
       ELSE {CHOOSE r \in S : \A q \in S :
                \/ q = r
                \/ StrLess(q.timestamp, r.timestamp)
                \/ (q.timestamp = r.timestamp /\ q.rowid < r.rowid)}

\* Faulty variant of IncrementCollapsed: the UPDATE also refreshes timestamp
IncrementCollapsedRefresh(table, id) ==
    {IF r.id = id
     THEN [r EXCEPT !.collapsed_count = @ + 1, !.timestamp = IsoFormat(now)]
     ELSE r : r \in table}

\* UPDATE notifications SET collapsed_count = collapsed_count + 1 WHERE id = ?
IncrementCollapsed(table, id) ==
    {IF r.id = id THEN [r EXCEPT !.collapsed_count = @ + 1] ELSE r : r \in table}

\* Faulty variant of TableAfterIsDuplicate: the UPDATE goes to every row
\* the SELECT matches
TableAfterIsDuplicateAllMatches(table, t, message, window_minutes) ==
    {IF r \in DuplicateMatches(table, t, message, window_minutes)
     THEN [r EXCEPT !.collapsed_count = @ + 1]
     ELSE r : r \in table}

\* The table after async_is_duplicate
TableAfterIsDuplicate(table, t, message, window_minutes) ==
    LET hit == DuplicateRow(table, t, message, window_minutes)
    IN IF hit = {} THEN table
       ELSE IncrementCollapsed(table, (CHOOSE r \in hit : TRUE).id)

\* The model's cap on collapsed_count: the lookup may run while its row is
\* below the cap
BelowCap(table, t, message, window_minutes) ==
    \A r \in DuplicateRow(table, t, message, window_minutes) :
        r.collapsed_count < MaxCollapsed

\* History for the streak of lookups after an insert: the row inserted last
LastInserted(table) ==
    {r \in table : \A q \in table : q.rowid <= r.rowid}

StreakAfterIsDuplicate(table, t, message, window_minutes, ret) ==
    IF \E r \in LastInserted(table) :
            /\ r.message = message
            /\ FromIso(r.timestamp) >= t - Minutes(window_minutes)
    THEN [k |-> streak.k + 1, ok |-> streak.ok /\ ret]
    ELSE streak

----------------------------------------------------------------------------
\* Store operations

\* async_initialize: connect, CREATE TABLE IF NOT EXISTS; the rows persist
Initialize ==
    /\ db' = "open"
    /\ last' = Call("initialize", <<>>, None, <<>>)
    /\ UNCHANGED <<rows, nextId, now, options, entryData, registry, tz, hass, tasks, txn, streak>>

\* async_close
Close ==
    /\ db' = "closed"
    /\ last' = Call("close", <<>>, None, <<>>)
    /\ UNCHANGED <<rows, nextId, now, options, entryData, registry, tz, hass, tasks, txn, streak>>

\* async_add_notification
AddNotification(message, title, category, entity_id, delivered) ==
    IF db # "open"
    THEN /\ last' = Raise("add_notification",
                          <<message, title, category, entity_id, delivered>>,
                          "RuntimeError", <<>>)
         /\ UNCHANGED <<db, rows, nextId, now, options, entryData, registry, tz, hass, tasks, txn, streak>>
    ELSE /\ nextId < MaxAdds
         /\ nextId' = nextId + 1
         /\ rows' = TableAfterAdd(rows, nextId', now, message, title, category,
                                  entity_id, delivered)
         /\ last' = Call("add_notification",
                         <<message, title, category, entity_id, delivered>>,
                         nextId', <<>>)
         /\ streak' = [k |-> 0, ok |-> TRUE]
         /\ UNCHANGED <<db, now, options, entryData, registry, tz, hass, tasks, txn>>

\* Faulty variant of GetRecent: no check that the database is initialized
GetRecentUnguarded(limit) ==
    /\ last' = Call("get_recent", <<limit>>, RecentRecords(rows, limit), <<>>)
    /\ UNCHANGED <<db, rows, nextId, now, options, entryData, registry, tz, hass, tasks, txn, streak>>

\* async_get_recent
GetRecent(limit) ==
    /\ last' = IF db # "open"
               THEN Raise("get_recent", <<limit>>, "RuntimeError", <<>>)
               ELSE Call("get_recent", <<limit>>, RecentRecords(rows, limit), <<>>)
    /\ UNCHANGED <<db, rows, nextId, now, options, entryData, registry, tz, hass, tasks, txn, streak>>

\* async_get_today_stats
GetTodayStats ==
    /\ last' = IF db # "open"
               THEN Raise("get_today_stats", <<>>, "RuntimeError", <<>>)
               ELSE Call("get_today_stats", <<>>, TodayStats(rows, now), <<>>)
    /\ UNCHANGED <<db, rows, nextId, now, options, entryData, registry, tz, hass, tasks, txn, streak>>

\* async_is_duplicate
IsDuplicate(message, window_minutes) ==
    IF db # "open"
    THEN /\ last' = Raise("is_duplicate", <<message, window_minutes>>,
                          "RuntimeError", <<>>)
         /\ UNCHANGED <<db, rows, nextId, now, options, entryData, registry, tz, hass, tasks, txn, streak>>
    ELSE LET ret == DuplicateRow(rows, now, message, window_minutes) # {}
         IN /\ BelowCap(rows, now, message, window_minutes)
            /\ rows' = TableAfterIsDuplicate(rows, now, message, window_minutes)
            /\ last' = Call("is_duplicate", <<message, window_minutes>>, ret, <<>>)
            /\ streak' = StreakAfterIsDuplicate(rows, now, message, window_minutes, ret)
            /\ UNCHANGED <<db, nextId, now, options, entryData, registry, tz, hass, tasks, txn>>

----------------------------------------------------------------------------
\* Delivery policy (__init__.py)

DEFAULT_QUIET_HOURS_ENABLED == TRUE

\* "22:00" and "07:00", as hour and minute
DEFAULT_QUIET_HOURS_START == <<22, 0>>

DEFAULT_QUIET_HOURS_END == <<7, 0>>

\* entry.options.get(key, default); options holds the keys that are set
OptionGet(opts, key, default) ==
    IF key \in DOMAIN opts THEN opts[key] ELSE default

\* datetime.time.fromisoformat("HH:MM"), as ticks since midnight
TimeFromIso(hm) == hm[1] * TicksPerHour + Minutes(hm[2])

\* datetime.now(tz=UTC).astimezone().time(): the local time of day
LocalTimeOfDay(t, zone) == (t + zone) % TicksPerDay

\* Faulty variant of IsQuietHours: no case for a window that spans midnight
IsQuietHoursSameDay(t, zone, opts) ==
    LET current_time == LocalTimeOfDay(t, zone)
        start == TimeFromIso(OptionGet(opts, "quiet_hours_start", DEFAULT_QUIET_HOURS_START))
        end == TimeFromIso(OptionGet(opts, "quiet_hours_end", DEFAULT_QUIET_HOURS_END))
    IN start <= current_time /\ current_time < end

\* _is_quiet_hours
IsQuietHours(t, zone, opts) ==
    LET current_time == LocalTimeOfDay(t, zone)
        start == TimeFromIso(OptionGet(opts, "quiet_hours_start", DEFAULT_QUIET_HOURS_START))
        end == TimeFromIso(OptionGet(opts, "quiet_hours_end", DEFAULT_QUIET_HOURS_END))
    IN IF start > end
       THEN current_time >= start \/ current_time < end
       ELSE start <= current_time /\ current_time < end

\* Faulty variant of WindowMinutes: the two windows exchanged
WindowMinutesSwapped(behavior) ==
    IF behavior = "NOTIFY_ONCE_PER_HOUR" THEN DEDUP_WINDOW ELSE ONCE_PER_HOUR_WINDOW

\* window_minutes = 60 if behavior == NOTIFY_ONCE_PER_HOUR else 5
WindowMinutes(behavior) ==
    IF behavior = "NOTIFY_ONCE_PER_HOUR" THEN ONCE_PER_HOUR_WINDOW ELSE DEDUP_WINDOW

\* Faulty variant of QuietSuppresses: the enabled setting is not read
QuietIgnoresEnabled(behavior, t, zone, opts) ==
    /\ behavior \in {"NOTIFY_RESPECT_QUIET", "NOTIFY_WITH_DEDUP"}
    /\ IsQuietHours(t, zone, opts)

\* The quiet-hours step of _should_deliver suppresses
QuietSuppresses(behavior, t, zone, opts) ==
    /\ behavior \in {"NOTIFY_RESPECT_QUIET", "NOTIFY_WITH_DEDUP"}
    /\ OptionGet(opts, "quiet_hours_enabled", DEFAULT_QUIET_HOURS_ENABLED)
    /\ IsQuietHours(t, zone, opts)

\* Faulty variant of ReachesDedup: the dedup step does not depend on the
\* quiet-hours step
ReachesDedupInQuiet(behavior, t, zone, opts) ==
    behavior \in {"NOTIFY_WITH_DEDUP", "NOTIFY_ONCE_PER_HOUR"}

\* _should_deliver reaches store.async_is_duplicate
ReachesDedup(behavior, t, zone, opts) ==
    /\ behavior \notin {"ALWAYS_NOTIFY", "LOG_ONLY"}
    /\ ~QuietSuppresses(behavior, t, zone, opts)
    /\ behavior \in {"NOTIFY_WITH_DEDUP", "NOTIFY_ONCE_PER_HOUR"}

\* Faulty variant of DecisionWithoutDedup: quiet hours are checked first, for
\* every behavior
DecisionQuietFirst(behavior, t, zone, opts) ==
    IF /\ OptionGet(opts, "quiet_hours_enabled", DEFAULT_QUIET_HOURS_ENABLED)
       /\ IsQuietHours(t, zone, opts)
    THEN FALSE
    ELSE IF behavior = "LOG_ONLY" THEN FALSE
    ELSE TRUE

\* Faulty variant of DecisionWithoutDedup: no branch for LOG_ONLY, which falls
\* through to the final return True
DecisionNoLogOnly(behavior, t, zone, opts) ==
    IF behavior = "ALWAYS_NOTIFY" THEN TRUE
    ELSE IF QuietSuppresses(behavior, t, zone, opts) THEN FALSE
    ELSE TRUE

\* What _should_deliver returns when it does not reach the store
DecisionWithoutDedup(behavior, t, zone, opts) ==
    IF behavior = "ALWAYS_NOTIFY" THEN TRUE
    ELSE IF behavior = "LOG_ONLY" THEN FALSE
    ELSE IF QuietSuppresses(behavior, t, zone, opts) THEN FALSE
    ELSE TRUE

\* _should_deliver(hass, entry, category, behavior, message)
ShouldDeliver(category, behavior, message) ==
    IF ~ReachesDedup(behavior, now, tz, options)
    THEN /\ last' = Call("should_deliver", <<category, behavior, message>>,
                         DecisionWithoutDedup(behavior, now, tz, options), <<>>)
         /\ UNCHANGED <<db, rows, nextId, now, options, entryData, registry, tz, hass, tasks, txn, streak>>
    ELSE IF db # "open"
    THEN /\ last' = Raise("should_deliver", <<category, behavior, message>>,
                          "RuntimeError",
                          << <<message, WindowMinutes(behavior), "RuntimeError">> >>)
         /\ UNCHANGED <<db, rows, nextId, now, options, entryData, registry, tz, hass, tasks, txn, streak>>
    ELSE LET window_minutes == WindowMinutes(behavior)
             dup == DuplicateRow(rows, now, message, window_minutes) # {}
         IN /\ BelowCap(rows, now, message, window_minutes)
            /\ rows' = TableAfterIsDuplicate(rows, now, message, window_minutes)
            /\ last' = Call("should_deliver", <<category, behavior, message>>,
                            ~dup, << <<message, window_minutes, dup>> >>)
            /\ streak' = StreakAfterIsDuplicate(rows, now, message, window_minutes, dup)
            /\ UNCHANGED <<db, nextId, now, options, entryData, registry, tz, hass, tasks, txn>>

----------------------------------------------------------------------------
\* Classification (classifier.py) and its tables (const.py)

\* Faulty variant of Falsy: "x is None", which lets the empty string through
FalsyNoneOnly(x) == x = None

\* "not x" of an optional string: None and the empty string are falsy
Falsy(x) == x = None \/ x = ""

UpperCase == "ABCDEFGHIJKLMNOPQRSTUVWXYZ"

LowerCase == "abcdefghijklmnopqrstuvwxyz"

\* The character at position i of string s
CharAt(s, i) == SubSeq(s, i, i)

\* The letters a-z and A-Z
Letters ==
    {CharAt(LowerCase, i) : i \in 1..Len(LowerCase)}
        \cup {CharAt(UpperCase, i) : i \in 1..Len(UpperCase)}

\* The characters of \w
WordChars == Letters \cup {CharAt("0123456789_", i) : i \in 1..Len("0123456789_")}

\* Faulty variant of IsLetter: the class \w of a \b boundary, which takes
\* digits and the underscore for parts of a word
IsWordChar(c) == c \in WordChars

\* The character class [a-zA-Z]
IsLetter(c) == c \in Letters

\* Each upper-case letter's lower-case letter
ToLower ==
    [c \in {CharAt(UpperCase, i) : i \in 1..Len(UpperCase)} |->
        CharAt(LowerCase, CHOOSE i \in 1..Len(UpperCase) : c = CharAt(UpperCase, i))]

\* A character as re.IGNORECASE compares it
Lower(c) == IF c \in DOMAIN ToLower THEN ToLower[c] ELSE c

RECURSIVE LowerStr(_)
LowerStr(s) == IF s = "" THEN "" ELSE Lower(Head(s)) \o LowerStr(Tail(s))

\* The alternatives of each compiled pattern, in the order written
SAFETY_REGEX == <<"smoke", "co2", "carbon", "leak", "flood", "water_sensor", "gas">>

SECURITY_REGEX == <<"door", "window", "lock", "alarm", "siren", "garage">>

DEVICE_REGEX == <<"battery", "offline", "unavailable", "connectivity">>

MOTION_REGEX == <<"motion", "occupancy", "presence">>

\* (?<![a-zA-Z]) fails at position i
PrecededByLetter(s, i) == i > 1 /\ IsLetter(CharAt(s, i - 1))

\* (?![a-zA-Z]) fails after position j
FollowedByLetter(s, j) == j < Len(s) /\ IsLetter(CharAt(s, j + 1))

\* Alternative kw matches at position i of the text, low being the text as
\* re.IGNORECASE compares it, between the two lookarounds
MatchesAt(kw, low, i) ==
    LET j == i + Len(kw) - 1
    IN /\ j <= Len(low)
       /\ ~PrecededByLetter(low, i)
       /\ SubSeq(low, i, j) = kw
       /\ ~FollowedByLetter(low, j)

\* The scan of regex.search(s) from position i on
RECURSIVE SearchFrom(_, _, _, _)
SearchFrom(regex, s, low, i) ==
    IF i > Len(s) THEN None
    ELSE LET alts == {k \in 1..Len(regex) : MatchesAt(regex[k], low, i)}
         IN IF alts # {}
            THEN LET k == CHOOSE k \in alts : \A m \in alts : k <= m
                 IN SubSeq(s, i, i + Len(regex[k]) - 1)
            ELSE SearchFrom(regex, s, low, i + 1)

\* regex.search(s): match.group() of the leftmost match, taking at its
\* position the first alternative that matches; None when there is no match
Search(regex, s) == SearchFrom(regex, s, LowerStr(s), 1)

\* The (pattern, category) list that classify_with_source and
\* classify_entity_with_confidence loop over
PatternList ==
    << <<SAFETY_REGEX, "SAFETY">>, <<SECURITY_REGEX, "SECURITY">>,
       <<DEVICE_REGEX, "DEVICE">>, <<MOTION_REGEX, "MOTION">> >>

\* Faulty variant of ClassifyByPattern: SECURITY is tried before SAFETY
ClassifyByPatternSecurityFirst(entity_id) ==
    IF Search(SECURITY_REGEX, entity_id) # None THEN "SECURITY"
    ELSE IF Search(SAFETY_REGEX, entity_id) # None THEN "SAFETY"
    ELSE IF Search(DEVICE_REGEX, entity_id) # None THEN "DEVICE"
    ELSE IF Search(MOTION_REGEX, entity_id) # None THEN "MOTION"
    ELSE "INFO"

\* The chain of searches of classify_entity and of _classify_by_pattern
ClassifyByPattern(entity_id) ==
    IF Search(SAFETY_REGEX, entity_id) # None THEN "SAFETY"
    ELSE IF Search(SECURITY_REGEX, entity_id) # None THEN "SECURITY"
    ELSE IF Search(DEVICE_REGEX, entity_id) # None THEN "DEVICE"
    ELSE IF Search(MOTION_REGEX, entity_id) # None THEN "MOTION"
    ELSE "INFO"

\* classify_entity
ClassifyEntity(entity_id) ==
    IF Falsy(entity_id) THEN "INFO" ELSE ClassifyByPattern(entity_id)

\* matches: (category, match.group()) of every pattern that matches
PatternMatches(entity_id) ==
    LET found == [n \in 1..Len(PatternList) |->
                    <<PatternList[n][2], Search(PatternList[n][1], entity_id)>>]
        IsMatch(m) == m[2] # None
    IN SelectSeq(found, IsMatch)

\* min(0.5 + max_len / 20, 1.0), in twentieths
Confidence(max_len) == IF 10 + max_len < 20 THEN 10 + max_len ELSE 20

\* classify_entity_with_confidence: the category and the confidence, the
\* latter in twentieths
ClassifyEntityWithConfidence(entity_id) ==
    IF Falsy(entity_id) THEN <<"INFO", 0>>
    ELSE LET matches == PatternMatches(entity_id)
             priority == <<"SAFETY", "SECURITY", "DEVICE", "MOTION">>
             CatMatches(cat) == {n \in 1..Len(matches) : matches[n][1] = cat}
             hits == {p \in 1..Len(priority) : CatMatches(priority[p]) # {}}
         IN IF matches = <<>> \/ hits = {} THEN <<"INFO", 0>>
            ELSE LET p == CHOOSE p \in hits : \A q \in hits : p <= q
                     lens == {Len(matches[n][2]) : n \in CatMatches(priority[p])}
                     max_len == CHOOSE l \in lens : \A m \in lens : m <= l
                 IN <<priority[p], Confidence(max_len)>>

\* DEVICE_CLASS_CATEGORY_MAP
DEVICE_CLASS_CATEGORY_MAP ==
    LET safety == {"smoke", "carbon_monoxide", "gas", "moisture", "heat", "safety"}
        security == {"door", "window", "lock", "garage_door", "opening", "tamper"}
        device == {"battery", "battery_charging", "connectivity", "problem", "plug",
                   "power", "update"}
        motion == {"motion", "occupancy", "presence", "moving"}
    IN [dc \in safety \cup security \cup device \cup motion |->
            IF dc \in safety THEN "SAFETY"
            ELSE IF dc \in security THEN "SECURITY"
            ELSE IF dc \in device THEN "DEVICE"
            ELSE "MOTION"]

\* DOMAIN_CATEGORY_MAP
DOMAIN_CATEGORY_MAP ==
    [d \in {"alarm_control_panel", "lock", "siren"} |-> "SECURITY"]

\* entry.options.get(CONF_ENTITY_OVERRIDES, {})
Overrides(opts) == OptionGet(opts, "entity_overrides", [x \in {} |-> None])

\* _classify_by_device_class: a category, or None
ClassifyByDeviceClass(reg, entity_id) ==
    IF entity_id \notin DOMAIN reg THEN None
    ELSE LET entry == reg[entity_id]
             device_class == IF Falsy(entry.device_class)
                             THEN entry.original_device_class
                             ELSE entry.device_class
         IN IF ~Falsy(device_class) /\ device_class \in DOMAIN DEVICE_CLASS_CATEGORY_MAP
            THEN DEVICE_CLASS_CATEGORY_MAP[device_class]
            ELSE None

\* entity_id.split(".")[0] if "." in entity_id else None
DomainOf(entity_id) ==
    LET dots == {i \in 1..Len(entity_id) : CharAt(entity_id, i) = "."}
    IN IF dots = {} THEN None
       ELSE SubSeq(entity_id, 1, (CHOOSE i \in dots : \A k \in dots : i <= k) - 1)

\* _classify_by_domain: a category, or None
ClassifyByDomain(entity_id) ==
    LET domain == DomainOf(entity_id)
    IN IF ~Falsy(domain) /\ domain \in DOMAIN DOMAIN_CATEGORY_MAP
       THEN DOMAIN_CATEGORY_MAP[domain]
       ELSE None

\* Faulty variant of ClassifyWithSource: the domain is looked at before the
\* device class
ClassifyWithSourceDomainFirst(opts, reg, entity_id) ==
    IF Falsy(entity_id) THEN <<"INFO", "default">>
    ELSE IF entity_id \in DOMAIN Overrides(opts)
    THEN <<CategoryOf(Overrides(opts)[entity_id]), "override">>
    ELSE IF ClassifyByDomain(entity_id) # None
    THEN <<ClassifyByDomain(entity_id), "domain">>
    ELSE IF ClassifyByDeviceClass(reg, entity_id) # None
    THEN <<ClassifyByDeviceClass(reg, entity_id), "device_class">>
    ELSE IF ClassifyByPattern(entity_id) # "INFO"
    THEN <<ClassifyByPattern(entity_id), "pattern">>
    ELSE <<"INFO", "default">>

\* EntityClassifier.classify_with_source: (category, source); the category is
\* ValueError when Category() rejects the override
ClassifyWithSource(opts, reg, entity_id) ==
    IF Falsy(entity_id) THEN <<"INFO", "default">>
    ELSE IF entity_id \in DOMAIN Overrides(opts)
    THEN <<CategoryOf(Overrides(opts)[entity_id]), "override">>
    ELSE IF ClassifyByDeviceClass(reg, entity_id) # None
    THEN <<ClassifyByDeviceClass(reg, entity_id), "device_class">>
    ELSE IF ClassifyByDomain(entity_id) # None
    THEN <<ClassifyByDomain(entity_id), "domain">>
    ELSE IF ClassifyByPattern(entity_id) # "INFO"
    THEN <<ClassifyByPattern(entity_id), "pattern">>
    ELSE <<"INFO", "default">>

\* Faulty variant of Classify: the domain is looked at before the device class
ClassifyDomainFirst(opts, reg, entity_id) ==
    IF Falsy(entity_id) THEN "INFO"
    ELSE IF entity_id \in DOMAIN Overrides(opts)
    THEN CategoryOf(Overrides(opts)[entity_id])
    ELSE IF ClassifyByDomain(entity_id) # None
    THEN ClassifyByDomain(entity_id)
    ELSE IF ClassifyByDeviceClass(reg, entity_id) # None
    THEN ClassifyByDeviceClass(reg, entity_id)
    ELSE ClassifyByPattern(entity_id)

\* EntityClassifier.classify: the category, or ValueError when Category()
\* rejects the override
Classify(opts, reg, entity_id) ==
    IF Falsy(entity_id) THEN "INFO"
    ELSE IF entity_id \in DOMAIN Overrides(opts)
    THEN CategoryOf(Overrides(opts)[entity_id])
    ELSE IF ClassifyByDeviceClass(reg, entity_id) # None
    THEN ClassifyByDeviceClass(reg, entity_id)
    ELSE IF ClassifyByDomain(entity_id) # None
    THEN ClassifyByDomain(entity_id)
    ELSE ClassifyByPattern(entity_id)

\* What classify and classify_with_source read on the way: the overrides
\* mapping of the options, then the entity registry
Consulted(opts, entity_id) ==
    IF Falsy(entity_id) THEN <<>>
    ELSE IF entity_id \in DOMAIN Overrides(opts) THEN <<"entity_overrides">>
    ELSE <<"entity_overrides", "entity_registry">>

\* A call of EntityClassifier.classify
ClassifyCall(entity_id) ==
    LET ret == Classify(options, registry, entity_id)
        calls == Consulted(options, entity_id)
    IN /\ last' = IF ret = "ValueError"
                  THEN Raise("classify", <<entity_id>>, "ValueError", calls)
                  ELSE Call("classify", <<entity_id>>, ret, calls)
       /\ UNCHANGED <<db, rows, nextId, now, options, entryData, registry, tz, hass, tasks, txn, streak>>

\* A call of EntityClassifier.classify_with_source
ClassifyWithSourceCall(entity_id) ==
    LET ret == ClassifyWithSource(options, registry, entity_id)
        calls == Consulted(options, entity_id)
    IN /\ last' = IF ret[1] = "ValueError"
                  THEN Raise("classify_with_source", <<entity_id>>, "ValueError", calls)
                  ELSE Call("classify_with_source", <<entity_id>>, ret, calls)
       /\ UNCHANGED <<db, rows, nextId, now, options, entryData, registry, tz, hass, tasks, txn, streak>>

\* A call of classify_entity
ClassifyEntityCall(entity_id) ==
    /\ last' = Call("classify_entity", <<entity_id>>, ClassifyEntity(entity_id), <<>>)
    /\ UNCHANGED <<db, rows, nextId, now, options, entryData, registry, tz, hass, tasks, txn, streak>>

\* A call of classify_entity_with_confidence
ClassifyEntityWithConfidenceCall(entity_id) ==
    /\ last' = Call("classify_entity_with_confidence", <<entity_id>>,
                    ClassifyEntityWithConfidence(entity_id), <<>>)
    /\ UNCHANGED <<db, rows, nextId, now, options, entryData, registry, tz, hass, tasks, txn, streak>>

----------------------------------------------------------------------------
\* The environment: inputs and the clock

\* The instant of day d at h:m:s plus f ticks
At(d, h, m, s, f) == Days(d) + h * TicksPerHour + Minutes(m) + s * TicksPerSecond + f

\* Time passes: the clock moves on to a later one of the instants S. The
\* result of the last call was computed at the earlier reading and is dropped.
Tick(S) ==
    /\ \E t \in S : t > now /\ now' = t
    /\ last' = Call("idle", <<>>, None, <<>>)
    /\ UNCHANGED <<db, rows, nextId, options, entryData, registry, tz, hass, tasks, txn, streak>>

Messages == {"Repeat me", "Other"}

Windows == {DEDUP_WINDOW, ONCE_PER_HOUR_WINDOW}

Limits == {1, DEFAULT_LIMIT}

\* entry.options with no key set
NoOptions == [x \in {} |-> None]

\* entry.data as the config flow creates it: a notify service chosen from the
\* registered ones
DefaultData == [delivery_target |-> "notify.mobile_app"]

\* An entity registry with no entity registered
NoRegistry == [x \in {} |-> None]

\* The host after async_setup: hass.data[DOMAIN] is {}, no service registered
NotSetUp == [data |-> "empty", service |-> FALSE]

\* The host after async_setup_entry: hass.data[DOMAIN] holds store and entry,
\* the notify service is registered
SetUp == [data |-> "entry", service |-> TRUE]

\* No coroutine in flight
NoTasks == <<>>

\* No transaction open on the connection
NoTxn == <<>>

----------------------------------------------------------------------------
\* The store on its own: every operation of NotificationStore, in any order

\* The instants the store is used at: a start five minutes before midnight,
\* the last instant at which the start is inside a 5 minute window, and
\* the first one at which it is outside (and inside a 60 minute window), which
\* is the midnight that begins the next UTC day
StoreInstants ==
    {At(10, 23, 54, 59, 1), At(10, 23, 59, 59, 1), At(11, 0, 0, 0, 0)}

\* message, title, category, entity_id, delivered of the notifications stored
StoreInputs ==
    {<<"Repeat me", None, "INFO", None, TRUE>>,
     <<"Repeat me", "Title", "SAFETY", "binary_sensor.smoke", FALSE>>,
     <<"Other", None, "SECURITY", "binary_sensor.front_door", TRUE>>}

InitStore ==
    /\ db = "closed"
    /\ rows = {}
    /\ nextId = 0
    /\ now = At(10, 23, 54, 59, 1)
    /\ options = NoOptions
    /\ tz = 0
    /\ last = Call("__init__", <<>>, None, <<>>)
    /\ entryData = DefaultData
    /\ registry = NoRegistry
    /\ hass = NotSetUp
    /\ tasks = NoTasks
    /\ txn = NoTxn
    /\ streak = [k |-> 0, ok |-> TRUE]

NextStore ==
    \/ Initialize
    \/ \E i \in StoreInputs : AddNotification(i[1], i[2], i[3], i[4], i[5])
    \/ \E limit \in Limits : GetRecent(limit)
    \/ GetTodayStats
    \/ \E message \in Messages, window_minutes \in Windows :
            IsDuplicate(message, window_minutes)
    \/ Tick(StoreInstants)

SpecStore == InitStore /\ [][NextStore]_vars

----------------------------------------------------------------------------
\* One record written and read back, over every category, both delivered
\* values, and title and entity id present or absent

Titles == {None, "Title"}

EntityIds == {None, "binary_sensor.smoke"}

InitRoundTrip ==
    /\ db = "open"
    /\ rows = {}
    /\ nextId = 0
    /\ now \in StoreInstants
    /\ options = NoOptions
    /\ tz = 0
    /\ last = Call("initialize", <<>>, None, <<>>)
    /\ entryData = DefaultData
    /\ registry = NoRegistry
    /\ hass = SetUp
    /\ tasks = NoTasks
    /\ txn = NoTxn
    /\ streak = [k |-> 0, ok |-> TRUE]

NextRoundTrip ==
    \/ /\ rows = {}
       /\ \E message \in Messages, title \in Titles, category \in Category,
             entity_id \in EntityIds, delivered \in BOOLEAN :
                AddNotification(message, title, category, entity_id, delivered)
    \/ \E limit \in Limits : GetRecent(limit)
    \/ Tick(StoreInstants)

SpecRoundTrip == InitRoundTrip /\ [][NextRoundTrip]_vars

----------------------------------------------------------------------------
\* The delivery policy over a store in use

\* DEFAULT_CATEGORY_BEHAVIORS
DEFAULT_CATEGORY_BEHAVIORS ==
    [c \in Category |->
        CASE c = "SAFETY" -> "ALWAYS_NOTIFY"
          [] c = "SECURITY" -> "NOTIFY_RESPECT_QUIET"
          [] c = "DEVICE" -> "NOTIFY_ONCE_PER_HOUR"
          [] c = "MOTION" -> "LOG_ONLY"
          [] c = "INFO" -> "NOTIFY_WITH_DEDUP"]

Hours(h) == h * TicksPerHour

\* The instants the policy is evaluated at: a start five minutes before
\* 22:00, the last instant at which the start is inside a 5 minute window
\* (22:00), and the first one at which it is outside (and inside a 60 minute
\* window)
PolicyInstants ==
    {At(10, 21, 55, 0, 0), At(10, 22, 0, 0, 0), At(10, 22, 0, 0, 1)}

\* Settings and local zone: the defaults (quiet from 22:00 to 07:00); quiet
\* hours switched off, two hours east of UTC; and a window that ends at 22:00
Configs ==
    {[options |-> NoOptions, tz |-> 0],
     [options |-> [quiet_hours_enabled |-> FALSE], tz |-> Hours(2)],
     [options |-> [quiet_hours_enabled |-> TRUE, quiet_hours_start |-> <<21, 0>>,
                   quiet_hours_end |-> <<22, 0>>], tz |-> 0]}

\* message, title, category, entity_id, delivered of the notifications stored
PolicyInputs ==
    {<<"Repeat me", None, "INFO", None, TRUE>>,
     <<"Other", "Title", "DEVICE", "sensor.phone_battery", FALSE>>}

\* category and behavior of the decisions asked for: the default behavior of
\* each category
PolicyCalls == {<<c, DEFAULT_CATEGORY_BEHAVIORS[c]>> : c \in Category}

\* After async_setup_entry: the store is initialized
Init ==
    /\ db = "open"
    /\ rows = {}
    /\ nextId = 0
    /\ now = At(10, 21, 55, 0, 0)
    /\ \E c \in Configs : options = c.options /\ tz = c.tz
    /\ last = Call("initialize", <<>>, None, <<>>)
    /\ entryData = DefaultData
    /\ registry = NoRegistry
    /\ hass = SetUp
    /\ tasks = NoTasks
    /\ txn = NoTxn
    /\ streak = [k |-> 0, ok |-> TRUE]

Next ==
    \/ \E i \in PolicyInputs : AddNotification(i[1], i[2], i[3], i[4], i[5])
    \/ \E c \in PolicyCalls, message \in Messages : ShouldDeliver(c[1], c[2], message)
    \/ Tick(PolicyInstants)

Spec == Init /\ [][Next]_vars

----------------------------------------------------------------------------
\* The notify service (async_handle_notify in __init__.py)

\* A dict with no key
EmptyDict == [x \in {} |-> None]

\* extra_data: the keys of data other than category and entity_id
ExtraData(data) ==
    [k \in DOMAIN data \ {"category", "entity_id"} |-> data[k]]

\* service_data: the message, the title if there is one, the extra data if any
ServiceData(message, title, data) ==
    LET keys == {"message"}
                    \cup (IF Falsy(title) THEN {} ELSE {"title"})
                    \cup (IF DOMAIN ExtraData(data) = {} THEN {} ELSE {"data"})
    IN [k \in keys |->
            CASE k = "message" -> <<message>>
              [] k = "title" -> <<title>>
              [] k = "data" -> ExtraData(data)]

\* delivery_target.split(".", 1): one part when there is no dot, else the part
\* before the first dot and the rest
SplitTarget(target) ==
    LET dots == {i \in 1..Len(target) : CharAt(target, i) = "."}
        first == CHOOSE i \in dots : \A k \in dots : i <= k
    IN IF dots = {} THEN <<target>>
       ELSE <<SubSeq(target, 1, first - 1), SubSeq(target, first + 1, Len(target))>>

\* Faulty variant of EventCategory: the entity id goes through the full
\* classifier, with overrides, device class and domain
EventCategoryClassified(data) ==
    LET entity_id == OptionGet(data, "entity_id", None)
        category_str == OptionGet(data, "category", None)
    IN IF ~Falsy(category_str) THEN CategoryOf(category_str)
       ELSE IF ~Falsy(entity_id) THEN Classify(options, registry, entity_id)
       ELSE "INFO"

\* The category of the event: the one given, else the one the entity id's
\* name classifies as, else INFO
EventCategory(data) ==
    LET entity_id == OptionGet(data, "entity_id", None)
        category_str == OptionGet(data, "category", None)
    IN IF ~Falsy(category_str) THEN CategoryOf(category_str)
       ELSE IF ~Falsy(entity_id) THEN ClassifyEntity(entity_id)
       ELSE "INFO"

\* The behavior for the category: the configured one, else the default
EventBehavior(opts, category) ==
    LET category_behaviors == OptionGet(opts, "category_behaviors", EmptyDict)
    IN IF CategoryValue(category) \in DOMAIN category_behaviors
       THEN CategoryBehaviorOf(category_behaviors[CategoryValue(category)])
       ELSE DEFAULT_CATEGORY_BEHAVIORS[category]

\* The delivery step: the calls of hass.services.async_call it makes, or
\* ValueError when the target does not unpack into domain and service
Deliveries(should_deliver, message, title, data) ==
    LET delivery_target == OptionGet(entryData, "delivery_target", None)
    IN IF ~should_deliver \/ Falsy(delivery_target) THEN <<>>
       ELSE IF Len(SplitTarget(delivery_target)) # 2 THEN "ValueError"
       ELSE << <<"async_call", SplitTarget(delivery_target)[1],
                 SplitTarget(delivery_target)[2], ServiceData(message, title, data)>> >>

\* Faulty variant of HandleNotify: the store is asked for a duplicate when
\* the event's own record is already in it
HandleNotifyInsertFirst(message, title, data, category, behavior) ==
    LET args == <<message, title, data>>
        entity_id == OptionGet(data, "entity_id", None)
        reaches == ReachesDedup(behavior, now, tz, options)
        window_minutes == WindowMinutes(behavior)
        dup == DuplicateRow(TableAfterAdd(rows, nextId + 1, now, message, title,
                                          category, entity_id, TRUE),
                            now, message, window_minutes) # {}
        should_deliver == IF reaches THEN ~dup
                          ELSE DecisionWithoutDedup(behavior, now, tz, options)
        looked == IF reaches
                  THEN << <<"is_duplicate", message, window_minutes, dup>> >>
                  ELSE <<>>
        decided == looked \o
                     << <<"_should_deliver", category, behavior, message, should_deliver>> >>
        table == IF reaches
                 THEN TableAfterIsDuplicate(rows, now, message, window_minutes)
                 ELSE rows
        stored == decided \o
                     << <<"add_notification", message, title, category, entity_id,
                          should_deliver, nextId + 1>> >>
        sent == Deliveries(should_deliver, message, title, data)
    IN IF db # "open" /\ reaches
       THEN /\ last' = Raise("notify", args, "RuntimeError",
                             << <<"is_duplicate", message, window_minutes, "RuntimeError">> >>)
            /\ UNCHANGED <<db, rows, nextId, now, options, entryData, registry, tz, hass, tasks, txn, streak>>
       ELSE IF db # "open"
       THEN /\ last' = Raise("notify", args, "RuntimeError", decided)
            /\ UNCHANGED <<db, rows, nextId, now, options, entryData, registry, tz, hass, tasks, txn, streak>>
       ELSE /\ nextId < MaxAdds
            /\ reaches => BelowCap(rows, now, message, window_minutes)
            /\ nextId' = nextId + 1
            /\ rows' = TableAfterAdd(table, nextId', now, message, title, category,
                                     entity_id, should_deliver)
            /\ last' = IF sent = "ValueError"
                       THEN Raise("notify", args, "ValueError", stored)
                       ELSE Call("notify", args, None, stored \o sent)
            /\ streak' = [k |-> 0, ok |-> TRUE]
            /\ UNCHANGED <<db, now, options, entryData, registry, tz, hass, tasks, txn>>

\* async_handle_notify from the decision on, category and behavior being
\* members. The calls logged are the store lookup, the decision, the insert
\* and the delivery, in the order made.
HandleNotify(message, title, data, category, behavior) ==
    LET args == <<message, title, data>>
        entity_id == OptionGet(data, "entity_id", None)
        reaches == ReachesDedup(behavior, now, tz, options)
        window_minutes == WindowMinutes(behavior)
        dup == DuplicateRow(rows, now, message, window_minutes) # {}
        should_deliver == IF reaches THEN ~dup
                          ELSE DecisionWithoutDedup(behavior, now, tz, options)
        looked == IF reaches
                  THEN << <<"is_duplicate", message, window_minutes, dup>> >>
                  ELSE <<>>
        decided == looked \o
                     << <<"_should_deliver", category, behavior, message, should_deliver>> >>
        table == IF reaches
                 THEN TableAfterIsDuplicate(rows, now, message, window_minutes)
                 ELSE rows
        stored == decided \o
                     << <<"add_notification", message, title, category, entity_id,
                          should_deliver, nextId + 1>> >>
        sent == Deliveries(should_deliver, message, title, data)
    IN IF db # "open" /\ reaches
       THEN /\ last' = Raise("notify", args, "RuntimeError",
                             << <<"is_duplicate", message, window_minutes, "RuntimeError">> >>)
            /\ UNCHANGED <<db, rows, nextId, now, options, entryData, registry, tz, hass, tasks, txn, streak>>
       ELSE IF db # "open"
       THEN /\ last' = Raise("notify", args, "RuntimeError", decided)
            /\ UNCHANGED <<db, rows, nextId, now, options, entryData, registry, tz, hass, tasks, txn, streak>>
       ELSE /\ nextId < MaxAdds
            /\ reaches => BelowCap(rows, now, message, window_minutes)
            /\ nextId' = nextId + 1
            /\ rows' = TableAfterAdd(table, nextId', now, message, title, category,
                                     entity_id, should_deliver)
            /\ last' = IF sent = "ValueError"
                       THEN Raise("notify", args, "ValueError", stored)
                       ELSE Call("notify", args, None, stored \o sent)
            /\ streak' = [k |-> 0, ok |-> TRUE]
            /\ UNCHANGED <<db, now, options, entryData, registry, tz, hass, tasks, txn>>

\* async_handle_notify(call), call.data holding message, title (or None) and
\* data: the category and the behavior are worked out first, and the handler
\* ends there when Category() or CategoryBehavior() raises
Notify(message, title, data) ==
    \E category \in {EventCategory(data)} :
        \E behavior \in {IF category = "ValueError" THEN "ValueError"
                         ELSE EventBehavior(options, category)} :
            IF behavior = "ValueError"
            THEN /\ last' = Raise("notify", <<message, title, data>>, "ValueError", <<>>)
                 /\ UNCHANGED <<db, rows, nextId, now, options, entryData, registry, tz, hass, tasks, txn,
                                streak>>
            ELSE HandleNotify(message, title, data, category, behavior)

\* The calls made to the service: no data; an entity id and extra data; a
\* category; a title and an entity id; a category and an entity id
NotifyInputs ==
    {<<"Repeat me", None, EmptyDict>>,
     <<"Repeat me", None,
       [k \in {"entity_id", "sound"} |->
            IF k = "entity_id" THEN "binary_sensor.smoke_detector" ELSE "alarm"]>>,
     <<"Other", None, [category |-> "motion"]>>,
     <<"Other", "Title", [entity_id |-> "binary_sensor.front_door"]>>,
     <<"Repeat me", "Title", [category |-> "device", entity_id |-> "sensor.phone_battery"]>>}

\* The entry as the config flow creates it; an entry with no delivery target,
\* a behavior per category of which one is no behavior value, and overrides of
\* which one is no category value; an entry whose delivery target is a bare
\* service name
NotifyConfigs ==
    {[options |-> NoOptions, data |-> DefaultData],
     [options |->
        [category_behaviors |->
            [c \in {"info", "motion"} |->
                IF c = "info" THEN "notify_loudly" ELSE "always_notify"],
         entity_overrides |->
            [e \in {"sensor.phone_battery", "light.living_room"} |->
                IF e = "sensor.phone_battery" THEN "urgent" ELSE "safety"]],
      data |-> EmptyDict],
     [options |-> NoOptions, data |-> [delivery_target |-> "mobile_app"]]}

OverriddenIds == {"sensor.phone_battery", "light.living_room"}

\* After async_setup_entry: the store is initialized, the service registered
InitNotify ==
    /\ db = "open"
    /\ rows = {}
    /\ nextId = 0
    /\ now = At(10, 21, 55, 0, 0)
    /\ \E c \in NotifyConfigs : options = c.options /\ entryData = c.data
    /\ registry = NoRegistry
    /\ hass = SetUp
    /\ tasks = NoTasks
    /\ txn = NoTxn
    /\ tz = 0
    /\ last = Call("initialize", <<>>, None, <<>>)
    /\ streak = [k |-> 0, ok |-> TRUE]

\* The classifier is called right after setup only: it reads the options and
\* the registry, which no action here changes, so a later call returns what
\* the first returns
NextNotify ==
    \/ \E i \in NotifyInputs : Notify(i[1], i[2], i[3])
    \/ /\ last.op = "initialize"
       /\ \E entity_id \in OverriddenIds : ClassifyCall(entity_id)
    \/ /\ last.op = "initialize"
       /\ \E entity_id \in OverriddenIds : ClassifyWithSourceCall(entity_id)
    \/ Tick(PolicyInstants)

SpecNotify == InitNotify /\ [][NextNotify]_vars

----------------------------------------------------------------------------
\* The quiet-hours test on its own, over windows and times of day

\* "HH:MM" settings
TimesOfDay ==
    {<<0, 0>>, <<1, 0>>, <<2, 0>>, <<7, 0>>, <<14, 0>>, <<16, 0>>, <<22, 0>>, <<23, 59>>}

QuietInstants ==
    {At(10, 0, 0, 0, 0), At(10, 3, 0, 0, 0), At(10, 6, 59, 59, 1), At(10, 7, 0, 0, 0),
     At(10, 12, 0, 0, 0), At(10, 13, 59, 59, 1), At(10, 14, 0, 0, 0),
     At(10, 15, 59, 59, 1), At(10, 16, 0, 0, 0), At(10, 21, 59, 59, 1),
     At(10, 22, 0, 0, 0), At(10, 23, 59, 59, 1)}

InitQuiet ==
    /\ db = "open"
    /\ rows = {}
    /\ nextId = 0
    /\ now \in QuietInstants
    /\ \E s \in TimesOfDay, e \in TimesOfDay :
            options = [quiet_hours_start |-> s, quiet_hours_end |-> e]
    /\ tz \in {0, Hours(2)}
    /\ last = Call("initialize", <<>>, None, <<>>)
    /\ entryData = DefaultData
    /\ registry = NoRegistry
    /\ hass = SetUp
    /\ tasks = NoTasks
    /\ txn = NoTxn
    /\ streak = [k |-> 0, ok |-> TRUE]

\* A call of _is_quiet_hours(hass, entry)
IsQuietHoursCall ==
    /\ last' = Call("_is_quiet_hours", <<>>, IsQuietHours(now, tz, options), <<>>)
    /\ UNCHANGED <<db, rows, nextId, now, options, entryData, registry, tz, hass, tasks, txn, streak>>

NextQuiet == IsQuietHoursCall

SpecQuiet == InitQuiet /\ [][NextQuiet]_vars

----------------------------------------------------------------------------
\* The life cycle of the store over a database file that outlives the
\* connection: initialize, use, close, initialize again, across the retention
\* horizon

\* The instant the store is created at, the instant seven days after the
\* older persisted row was written, and the one seven days after the newer
RetentionInstants ==
    {At(3, 12, 0, 0, 1), At(10, 12, 0, 0, 0), At(10, 12, 0, 0, 1)}

\* Rows left in notifications.db by an earlier run: one written a tick
\* before the store is created, one at that instant
PersistedRows ==
    LET first == NewRow({}, -1, At(3, 12, 0, 0, 0), "Repeat me", None, "INFO", None, TRUE)
    IN {first,
        NewRow({first}, 0, At(3, 12, 0, 0, 1), "Other", "Title", "SAFETY",
               "binary_sensor.smoke", FALSE)}

LifecycleInputs ==
    {<<"Repeat me", None, "SECURITY", "binary_sensor.front_door", FALSE>>}

\* NotificationStore(hass, storage_path) over an existing or a new file
InitLifecycle ==
    /\ db = "closed"
    /\ rows \in {{}, PersistedRows}
    /\ nextId = 0
    /\ now = At(3, 12, 0, 0, 1)
    /\ options = NoOptions
    /\ tz = 0
    /\ last = Call("__init__", <<>>, None, <<>>)
    /\ entryData = DefaultData
    /\ registry = NoRegistry
    /\ hass = NotSetUp
    /\ tasks = NoTasks
    /\ txn = NoTxn
    /\ streak = [k |-> 0, ok |-> TRUE]

NextLifecycle ==
    \/ Initialize
    \/ Close
    \/ \E i \in LifecycleInputs : AddNotification(i[1], i[2], i[3], i[4], i[5])
    \/ \E limit \in Limits : GetRecent(limit)
    \/ GetTodayStats
    \/ IsDuplicate("Repeat me", DEDUP_WINDOW)
    \/ Tick(RetentionInstants)

SpecLifecycle == InitLifecycle /\ [][NextLifecycle]_vars

----------------------------------------------------------------------------
\* Pattern classification on its own, over entity ids built from the keywords

\* Every alternative of the four patterns
Keywords ==
    {SAFETY_REGEX[i] : i \in 1..Len(SAFETY_REGEX)}
        \cup {SECURITY_REGEX[i] : i \in 1..Len(SECURITY_REGEX)}
        \cup {DEVICE_REGEX[i] : i \in 1..Len(DEVICE_REGEX)}
        \cup {MOTION_REGEX[i] : i \in 1..Len(MOTION_REGEX)}

ToUpper ==
    [c \in {CharAt(LowerCase, i) : i \in 1..Len(LowerCase)} |->
        CharAt(UpperCase, CHOOSE i \in 1..Len(LowerCase) : c = CharAt(LowerCase, i))]

Upper(c) == IF c \in DOMAIN ToUpper THEN ToUpper[c] ELSE c

RECURSIVE UpperStr(_)
UpperStr(s) == IF s = "" THEN "" ELSE Upper(Head(s)) \o UpperStr(Tail(s))

\* What comes before and after a word: nothing, a domain, letters of either
\* case, an underscore, a dot, a digit
Prefixes == {"", "binary_sensor.", "in", "com", "X", "_", "1"}

Suffixes == {"", "_level", "s", "S", "2", ".x", "_"}

Separators == {"_", ".", ""}

\* One word, a keyword or not, in lower or upper case, between a prefix and a
\* suffix; and two keywords side by side; and no id at all
PatternIds ==
    {None, ""}
        \cup {pre \o w \o suf :
                pre \in Prefixes,
                w \in Keywords \cup {UpperStr(k) : k \in Keywords} \cup {"light"},
                suf \in Suffixes}
        \cup {w1 \o sep \o w2 : w1 \in Keywords, sep \in Separators, w2 \in Keywords}

InitPattern ==
    /\ db = "open"
    /\ rows = {}
    /\ nextId = 0
    /\ now = At(10, 12, 0, 0, 0)
    /\ options = NoOptions
    /\ tz = 0
    /\ last = Call("initialize", <<>>, None, <<>>)
    /\ entryData = DefaultData
    /\ registry = NoRegistry
    /\ hass = SetUp
    /\ tasks = NoTasks
    /\ txn = NoTxn
    /\ streak = [k |-> 0, ok |-> TRUE]

\* One call in a run: the functions read nothing but their argument, so a
\* call after another reaches no state that a first call does not
NextPattern ==
    /\ last.op = "initialize"
    /\ \/ \E entity_id \in PatternIds : ClassifyEntityCall(entity_id)
       \/ \E entity_id \in PatternIds : ClassifyEntityWithConfidenceCall(entity_id)

SpecPattern == InitPattern /\ [][NextPattern]_vars

----------------------------------------------------------------------------
\* The classifier over overrides and an entity registry

ClassifierIds ==
    {None, "", "binary_sensor.front_door", "lock.front_door",
     "alarm_control_panel.smoke_alarm", "siren.garage", "lock",
     "sensor.indoor_temperature", "binary_sensor.smoke_detector",
     "light.living_room", "sensor.phone_battery", "sensor.hall_motion"}

\* entry.options: no overrides; or overrides of which two are no category
\* value (an unknown word, and a member's name instead of its value)
ClassifierOptions ==
    {NoOptions,
     [entity_overrides |->
        [e \in {"", "alarm_control_panel.smoke_alarm", "light.living_room",
                "sensor.phone_battery", "lock.front_door"} |->
            CASE e = "" -> "device"
              [] e = "alarm_control_panel.smoke_alarm" -> "motion"
              [] e = "light.living_room" -> "safety"
              [] e = "sensor.phone_battery" -> "urgent"
              [] e = "lock.front_door" -> "INFO"]]}

\* Registry entries: device class set by the device, set by the user over the
\* device's, set to one the table does not know, and not set
Registries ==
    {NoRegistry,
     [e \in {"alarm_control_panel.smoke_alarm", "lock.front_door",
             "binary_sensor.front_door", "light.living_room", "siren.garage",
             "sensor.hall_motion", "sensor.indoor_temperature"} |->
        CASE e = "alarm_control_panel.smoke_alarm" ->
                [device_class |-> None, original_device_class |-> "smoke"]
          [] e = "lock.front_door" ->
                [device_class |-> "battery", original_device_class |-> "lock"]
          [] e = "binary_sensor.front_door" ->
                [device_class |-> "sound", original_device_class |-> "door"]
          [] e = "light.living_room" ->
                [device_class |-> None, original_device_class |-> None]
          [] e = "siren.garage" ->
                [device_class |-> "", original_device_class |-> "temperature"]
          [] e = "sensor.hall_motion" ->
                [device_class |-> None, original_device_class |-> "battery"]
          [] e = "sensor.indoor_temperature" ->
                [device_class |-> "moisture", original_device_class |-> "temperature"]]}

InitClassifier ==
    /\ db = "open"
    /\ rows = {}
    /\ nextId = 0
    /\ now = At(10, 12, 0, 0, 0)
    /\ options \in ClassifierOptions
    /\ tz = 0
    /\ last = Call("initialize", <<>>, None, <<>>)
    /\ entryData = DefaultData
    /\ registry \in Registries
    /\ hass = SetUp
    /\ tasks = NoTasks
    /\ txn = NoTxn
    /\ streak = [k |-> 0, ok |-> TRUE]

\* One call in a run: the classifier changes nothing, so a call after
\* another reaches no state that a first call does not
NextClassifier ==
    /\ last.op = "initialize"
    /\ \/ \E entity_id \in ClassifierIds : ClassifyCall(entity_id)
       \/ \E entity_id \in ClassifierIds : ClassifyWithSourceCall(entity_id)
       \/ \E entity_id \in ClassifierIds : ClassifyEntityCall(entity_id)
       \/ \E entity_id \in ClassifierIds : ClassifyEntityWithConfidenceCall(entity_id)

SpecClassifier == InitClassifier /\ [][NextClassifier]_vars

----------------------------------------------------------------------------
\* The integration in its host: setup, unload and the WebSocket commands
\* (__init__.py)

\* {**f} with the keys of g set to g's values
Merge(f, g) ==
    [k \in DOMAIN f \cup DOMAIN g |-> IF k \in DOMAIN g THEN g[k] ELSE f[k]]

\* The keys of new_config that ws_save_config copies into entry.data
DataKeys == {"delivery_target"}

\* The keys of new_config that ws_save_config copies into entry.options
OptionKeys ==
    {"quiet_hours_enabled", "quiet_hours_start", "quiet_hours_end", "category_behaviors"}

\* f restricted to the keys in S
Restrict(f, S) == [k \in DOMAIN f \cap S |-> f[k]]

\* NotificationRecord.to_dict
ToDict(record) ==
    [id |-> record.id,
     timestamp |-> IsoFormat(record.timestamp),
     message |-> record.message,
     title |-> record.title,
     category |-> CategoryValue(record.category),
     entity_id |-> record.entity_id,
     delivered |-> record.delivered,
     collapsed_count |-> record.collapsed_count]

\* s.replace("_", " ")
RECURSIVE ReplaceUnderscores(_)
ReplaceUnderscores(s) ==
    IF s = "" THEN ""
    ELSE (IF Head(s) = "_" THEN " " ELSE Head(s)) \o ReplaceUnderscores(Tail(s))

\* s.title(): a letter that follows no letter in upper case, every other
\* letter in lower case
RECURSIVE TitleFrom(_, _)
TitleFrom(s, after_letter) ==
    IF s = "" THEN ""
    ELSE LET c == Head(s)
         IN (IF ~IsLetter(c) THEN c
             ELSE IF after_letter THEN Lower(c) ELSE Upper(c))
                \o TitleFrom(Tail(s), IsLetter(c))

Title(s) == TitleFrom(s, FALSE)

\* The characters of the names, in code point order
CodePoints == " 0123456789ABCDEFGHIJKLMNOPQRSTUVWXYZ_abcdefghijklmnopqrstuvwxyz"

Ord(c) == CHOOSE i \in 1..Len(CodePoints) : CharAt(CodePoints, i) = c

\* a < b for str values
RECURSIVE TextLess(_, _)
TextLess(a, b) ==
    IF b = "" THEN FALSE
    ELSE IF a = "" THEN TRUE
    ELSE IF Head(a) # Head(b) THEN Ord(Head(a)) < Ord(Head(b))
    ELSE TextLess(Tail(a), Tail(b))

\* sorted(notify_services, key=lambda x: x["name"])
RECURSIVE SortedByName(_)
SortedByName(S) ==
    IF S = {} THEN <<>>
    ELSE LET first == CHOOSE x \in S : \A y \in S : ~TextLess(y.name, x.name)
         IN <<first>> \o SortedByName(S \ {first})

\* The services registered in domain notify by the host and other integrations
NotifyServices == {"persistent_notification", "mobile_app_phone", "alexa_media", "hush"}

\* notify_services of ws_get_config
AvailableTargets ==
    SortedByName({[service |-> "notify." \o n, name |-> Title(ReplaceUnderscores(n))] :
                    n \in NotifyServices \ {"hush", "persistent_notification"}})

\* config of ws_get_config
ConfigOf(data, opts) ==
    [delivery_target |-> OptionGet(data, "delivery_target", ""),
     quiet_hours_enabled |->
        OptionGet(opts, "quiet_hours_enabled", DEFAULT_QUIET_HOURS_ENABLED),
     quiet_hours_start |-> OptionGet(opts, "quiet_hours_start", DEFAULT_QUIET_HOURS_START),
     quiet_hours_end |-> OptionGet(opts, "quiet_hours_end", DEFAULT_QUIET_HOURS_END),
     category_behaviors |-> OptionGet(opts, "category_behaviors", EmptyDict)]

\* async_setup_entry, for an entry that is not loaded: a new store over the
\* database file, initialized; the runtime data; the service; the commands
SetupEntry ==
    /\ hass.data # "entry"
    /\ db' = "open"
    /\ hass' = [data |-> "entry", service |-> TRUE]
    /\ last' = Call("setup_entry", <<>>, TRUE,
                    << <<"async_initialize">>,
                       <<"async_register", "hush", "notify">>,
                       <<"async_register_command", "hush/get_notifications">>,
                       <<"async_register_command", "hush/get_config">>,
                       <<"async_register_command", "hush/save_config">> >>)
    /\ UNCHANGED <<rows, nextId, now, options, entryData, registry, tz, tasks, txn, streak>>

\* Faulty variant of UnloadEntry: the runtime data is left in hass.data
UnloadEntryKeepData ==
    /\ hass.service
    /\ db' = IF hass.data = "entry" THEN "closed" ELSE db
    /\ hass' = [hass EXCEPT !.service = FALSE]
    /\ last' = Call("unload_entry", <<>>, TRUE,
                    << <<"async_remove", "hush", "notify">> >>
                        \o (IF hass.data = "entry" THEN << <<"async_close">> >> ELSE <<>>))
    /\ UNCHANGED <<rows, nextId, now, options, entryData, registry, tz, tasks, txn, streak>>

\* async_unload_entry, for a loaded entry: the service is removed; if
\* hass.data holds DOMAIN, its store (if any) is closed and DOMAIN is popped
UnloadEntry ==
    /\ hass.service
    /\ db' = IF hass.data = "entry" THEN "closed" ELSE db
    /\ hass' = [data |-> "absent", service |-> FALSE]
    /\ last' = Call("unload_entry", <<>>, TRUE,
                    << <<"async_remove", "hush", "notify">> >>
                        \o (IF hass.data = "entry" THEN << <<"async_close">> >> ELSE <<>>)
                        \o (IF hass.data # "absent" THEN << <<"pop", "hush">> >> ELSE <<>>))
    /\ UNCHANGED <<rows, nextId, now, options, entryData, registry, tz, tasks, txn, streak>>

\* What every command sends when DOMAIN is not in hass.data
NotConfigured == << <<"send_error", "not_configured", "Hush is not configured">> >>

\* ws_get_notifications
WsGetNotifications(limit) ==
    /\ last' =
        IF hass.data = "absent"
        THEN Call("ws_get_notifications", <<limit>>, None, NotConfigured)
        ELSE IF hass.data = "empty"
        THEN Raise("ws_get_notifications", <<limit>>, "KeyError", <<>>)
        ELSE IF db # "open"
        THEN Raise("ws_get_notifications", <<limit>>, "RuntimeError",
                   << <<"async_get_recent", limit>> >>)
        ELSE LET notifications == RecentRecords(rows, limit)
                 stats == TodayStats(rows, now)
             IN Call("ws_get_notifications", <<limit>>, None,
                     << <<"async_get_recent", limit>>,
                        <<"async_get_today_stats">>,
                        <<"send_result",
                          [notifications |->
                                [i \in 1..Len(notifications) |-> ToDict(notifications[i])],
                           stats |-> stats]>> >>)
    /\ UNCHANGED <<db, rows, nextId, now, options, entryData, registry, tz, hass, tasks, txn,
                   streak>>

\* ws_get_config
WsGetConfig ==
    /\ last' =
        IF hass.data = "absent"
        THEN Call("ws_get_config", <<>>, None, NotConfigured)
        ELSE IF hass.data = "empty"
        THEN Raise("ws_get_config", <<>>, "KeyError", <<>>)
        ELSE Call("ws_get_config", <<>>, None,
                  << <<"async_services">>,
                     <<"send_result",
                       [config |-> ConfigOf(entryData, options),
                        notify_services |-> AvailableTargets]>> >>)
    /\ UNCHANGED <<db, rows, nextId, now, options, entryData, registry, tz, hass, tasks, txn,
                   streak>>

\* ws_save_config
WsSaveConfig(new_config) ==
    IF hass.data = "absent"
    THEN /\ last' = Call("ws_save_config", <<new_config>>, None, NotConfigured)
         /\ UNCHANGED <<db, rows, nextId, now, options, entryData, registry, tz, hass,
                        tasks, txn, streak>>
    ELSE IF hass.data = "empty"
    THEN /\ last' = Raise("ws_save_config", <<new_config>>, "KeyError", <<>>)
         /\ UNCHANGED <<db, rows, nextId, now, options, entryData, registry, tz, hass,
                        tasks, txn, streak>>
    ELSE /\ entryData' = Merge(entryData, Restrict(new_config, DataKeys))
         /\ options' = Merge(options, Restrict(new_config, OptionKeys))
         /\ last' = Call("ws_save_config", <<new_config>>, None,
                         << <<"async_update_entry", entryData', options'>>,
                            <<"send_result", [success |-> TRUE]>> >>)
         /\ UNCHANGED <<db, rows, nextId, now, registry, tz, hass, tasks, txn, streak>>

\* The notify service, called while it is registered
NotifyService(message, title, data) ==
    /\ hass.service
    /\ Notify(message, title, data)

\* msg["config"] of the save commands: nothing; a target; settings and an
\* unknown key
SaveConfigs ==
    {EmptyDict,
     [delivery_target |-> "notify.alexa_media"],
     [quiet_hours_enabled |-> FALSE,
      category_behaviors |-> [info |-> "always_notify"],
      theme |-> "dark"]}

HostInputs ==
    {<<"Repeat me", None, EmptyDict>>,
     <<"Other", "Title", [entity_id |-> "binary_sensor.front_door"]>>}

HostInstants == {At(10, 21, 55, 0, 0), At(10, 22, 0, 0, 1)}

\* After async_setup_entry over a new database file
InitHost ==
    /\ db = "open"
    /\ rows = {}
    /\ nextId = 0
    /\ now = At(10, 21, 55, 0, 0)
    /\ options = NoOptions
    /\ entryData = DefaultData
    /\ registry = NoRegistry
    /\ tz = 0
    /\ hass = SetUp
    /\ tasks = NoTasks
    /\ txn = NoTxn
    /\ last = Call("setup_entry", <<>>, TRUE, <<>>)
    /\ streak = [k |-> 0, ok |-> TRUE]

NextHost ==
    \/ SetupEntry
    \/ UnloadEntry
    \/ \E limit \in Limits : WsGetNotifications(limit)
    \/ WsGetConfig
    \/ \E new_config \in SaveConfigs : WsSaveConfig(new_config)
    \/ \E i \in HostInputs : NotifyService(i[1], i[2], i[3])
    \/ Tick(HostInstants)

SpecHost == InitHost /\ [][NextHost]_vars

----------------------------------------------------------------------------
\* Coroutines in flight. A coroutine runs until it awaits the connection; the
\* statement it awaits runs on the connection's thread, statements in the
\* order submitted; meanwhile the event loop runs other coroutines. One step
\* of a task is the code since its last await together with the statement it
\* awaits next; pc names the await the task is suspended at.
\*
\* db is "open"; "closing" once the connection is closed while
\* NotificationStore._db still refers to it (async_close is suspended between
\* its two lines); "closed" when _db is None.

\* The frame of a task that has not been called
IdleFrame ==
    [op |-> "idle", pc |-> "idle", message |-> None, title |-> None,
     data |-> EmptyDict, category |-> None, behavior |-> None, entity_id |-> None,
     window_minutes |-> 0, delivered |-> FALSE, hit |-> {}, id |-> 0,
     calls |-> <<>>, ret |-> None, raised |-> FALSE]

\* What a step works on, and what it leaves
World == [rows |-> rows, txn |-> txn, nextId |-> nextId, db |-> db, hass |-> hass]

Out(f, w) == [f |-> f, w |-> w]

\* The task ends by raising exc
Fail(f, exc) == [f EXCEPT !.pc = "done", !.raised = TRUE, !.ret = exc]

\* The task ends by returning v
Return(f, v) == [f EXCEPT !.pc = "done", !.ret = v]

\* What a statement raises when the connection is not open: aiosqlite's
\* ValueError on a closed connection, AttributeError on _db being None
ErrorOnHandle(handle) == IF handle = "closed" THEN "AttributeError" ELSE "ValueError"

\* The transaction after a statement that writes: sqlite3 begins one if none
\* is open
Begin(w) == IF w.txn = NoTxn THEN <<w.rows>> ELSE w.txn

\* await self._db.commit(), the task then suspended at pc
Commit(f, w, pc) ==
    IF w.db # "open" THEN Out(Fail(f, ErrorOnHandle(w.db)), w)
    ELSE Out([f EXCEPT !.pc = pc], [w EXCEPT !.txn = NoTxn])

\* async_is_duplicate up to its SELECT at instant t: id and collapsed_count of
\* the row found
SelectDuplicate(f, w, t) ==
    IF w.db = "closed" THEN Out(Fail(f, "RuntimeError"), w)
    ELSE IF w.db # "open" THEN Out(Fail(f, "ValueError"), w)
    ELSE Out([f EXCEPT
                !.pc = "select",
                !.hit = {[id |-> r.id, collapsed_count |-> r.collapsed_count] :
                            r \in DuplicateRow(w.rows, t, f.message, f.window_minutes)}],
             w)

\* Faulty variant of UpdatedTable: the count selected, plus one, is written
UpdatedTableFromSelected(table, row) ==
    {IF r.id = row.id THEN [r EXCEPT !.collapsed_count = row.collapsed_count + 1] ELSE r :
        r \in table}

\* The table after the UPDATE for the row selected: the count is raised by
\* the statement, WHERE id = row["id"]
UpdatedTable(table, row) == IncrementCollapsed(table, row.id)

\* async_is_duplicate after a row was fetched: the UPDATE
UpdateDuplicate(f, w) ==
    IF w.db # "open" THEN Out(Fail(f, ErrorOnHandle(w.db)), w)
    ELSE Out([f EXCEPT !.pc = "update"],
             [w EXCEPT !.rows = UpdatedTable(w.rows, CHOOSE r \in f.hit : TRUE),
                       !.txn = Begin(w)])

\* Faulty variant of InsertNotification: with the store not open the insert
\* is skipped and the caller goes on as if it had been made
InsertNotificationSkipped(f, w, t) ==
    IF w.db # "open"
    THEN Out([f EXCEPT !.pc = "sweep_commit", !.id = w.nextId + 1],
             [w EXCEPT !.nextId = @ + 1])
    ELSE Out([f EXCEPT !.pc = "insert", !.id = w.nextId + 1],
             [w EXCEPT
                !.nextId = @ + 1,
                !.rows = w.rows \cup {NewRow(w.rows, w.nextId + 1, t, f.message, f.title,
                                             f.category, f.entity_id, f.delivered)},
                !.txn = Begin(w)])

\* async_add_notification up to its INSERT at instant t
InsertNotification(f, w, t) ==
    IF w.db = "closed" THEN Out(Fail(f, "RuntimeError"), w)
    ELSE IF w.db # "open"
    THEN Out(Fail(f, "ValueError"), [w EXCEPT !.nextId = @ + 1])
    ELSE Out([f EXCEPT !.pc = "insert", !.id = w.nextId + 1],
             [w EXCEPT
                !.nextId = @ + 1,
                !.rows = w.rows \cup {NewRow(w.rows, w.nextId + 1, t, f.message, f.title,
                                             f.category, f.entity_id, f.delivered)},
                !.txn = Begin(w)])

\* _async_cleanup_old up to its DELETE at instant t; after is the task as it
\* goes on when the sweep returns at once because _db is None
SweepDelete(f, w, t, after) ==
    IF w.db = "closed" THEN Out(after, w)
    ELSE IF w.db # "open" THEN Out(Fail(f, "ValueError"), w)
    ELSE Out([f EXCEPT !.pc = "delete"],
             [w EXCEPT !.rows = CleanupOld(w.rows, t), !.txn = Begin(w)])

\* A step's outcome becomes the next state
Apply(t, o) ==
    /\ tasks' = [tasks EXCEPT ![t] = o.f]
    /\ rows' = o.w.rows
    /\ txn' = o.w.txn
    /\ nextId' = o.w.nextId
    /\ db' = o.w.db
    /\ hass' = o.w.hass
    /\ UNCHANGED <<now, options, entryData, registry, tz, last, streak>>

\* Calls are numbered in the order made
NextToCall(t) ==
    /\ t \in DOMAIN tasks
    /\ tasks[t].op = "idle"
    /\ \A u \in DOMAIN tasks : u < t => tasks[u].op # "idle"

Suspended(t, op) ==
    /\ t \in DOMAIN tasks
    /\ tasks[t].op = op
    /\ tasks[t].pc \notin {"idle", "done"}

\* store.async_is_duplicate(message, window_minutes) is called
CallIsDuplicate(t, message, window_minutes) ==
    /\ NextToCall(t)
    /\ Apply(t, SelectDuplicate(
                    [IdleFrame EXCEPT !.op = "is_duplicate", !.message = message,
                                      !.window_minutes = window_minutes],
                    World, now))

\* async_is_duplicate goes on after an await
ResumeIsDuplicate(t) ==
    /\ Suspended(t, "is_duplicate")
    /\ LET f == tasks[t]
       IN Apply(t, CASE f.pc = "select" ->
                            IF f.hit = {} THEN Out(Return(f, FALSE), World)
                            ELSE UpdateDuplicate(f, World)
                     [] f.pc = "update" -> Commit(f, World, "dup_commit")
                     [] f.pc = "dup_commit" -> Out(Return(f, TRUE), World))

\* async_add_notification returns the id
AddReturns(f) == Return(f, f.id)

\* store.async_add_notification(...) is called
CallAddNotification(t, message, title, category, entity_id, delivered) ==
    /\ NextToCall(t)
    /\ Apply(t, InsertNotification(
                    [IdleFrame EXCEPT !.op = "add_notification", !.message = message,
                                      !.title = title, !.category = category,
                                      !.entity_id = entity_id, !.delivered = delivered],
                    World, now))

\* async_add_notification goes on after an await
ResumeAddNotification(t) ==
    /\ Suspended(t, "add_notification")
    /\ LET f == tasks[t]
       IN Apply(t, CASE f.pc = "insert" -> Commit(f, World, "add_commit")
                     [] f.pc = "add_commit" -> SweepDelete(f, World, now, AddReturns(f))
                     [] f.pc = "delete" -> Commit(f, World, "sweep_commit")
                     [] f.pc = "sweep_commit" -> Out(AddReturns(f), World))

\* async_handle_notify from the return of async_add_notification on: the
\* delivery, suspended in hass.services.async_call, or the end
Deliver(f) ==
    LET sent == Deliveries(f.delivered, f.message, f.title, f.data)
        stored == [f EXCEPT !.calls = @ \o << <<"add_notification", f.id>> >>]
    IN IF sent = <<>> THEN Return(stored, None)
       ELSE IF Len(sent) # 1 THEN Fail(stored, "ValueError")
       ELSE [stored EXCEPT !.pc = "call", !.calls = @ \o sent]

\* async_handle_notify from the return of _should_deliver on, up to the INSERT
Decide(f, w, t, should_deliver) ==
    InsertNotification(
        [f EXCEPT !.delivered = should_deliver,
                  !.calls = @ \o << <<"_should_deliver", should_deliver>> >>],
        w, t)

\* async_handle_notify starts and runs up to its first await. The host starts
\* the handler of a call it accepted when it schedules it, which may be after
\* the entry began to unload: the handler holds the store from its closure.
CallNotify(t, message, title, data) ==
    /\ NextToCall(t)
    /\ \E category \in {EventCategory(data)} :
       \E behavior \in {IF category = "ValueError" THEN "ValueError"
                        ELSE EventBehavior(options, category)} :
            LET f == [IdleFrame EXCEPT
                        !.op = "notify", !.message = message, !.title = title,
                        !.data = data, !.entity_id = OptionGet(data, "entity_id", None)]
                g == [f EXCEPT !.category = category, !.behavior = behavior,
                               !.window_minutes = WindowMinutes(behavior)]
            IN Apply(t,
                 IF behavior = "ValueError" THEN Out(Fail(f, "ValueError"), World)
                 ELSE IF ~ReachesDedup(behavior, now, tz, options)
                 THEN Decide(g, World, now, DecisionWithoutDedup(behavior, now, tz, options))
                 ELSE IF hass.data # "entry" THEN Out(Fail(g, "KeyError"), World)
                 ELSE SelectDuplicate(g, World, now))

\* async_handle_notify goes on after an await
ResumeNotify(t) ==
    /\ Suspended(t, "notify")
    /\ LET f == tasks[t]
       IN Apply(t, CASE f.pc = "select" ->
                            IF f.hit = {} THEN Decide(f, World, now, TRUE)
                            ELSE UpdateDuplicate(f, World)
                     [] f.pc = "update" -> Commit(f, World, "dup_commit")
                     [] f.pc = "dup_commit" -> Decide(f, World, now, FALSE)
                     [] f.pc = "insert" -> Commit(f, World, "add_commit")
                     [] f.pc = "add_commit" -> SweepDelete(f, World, now, Deliver(f))
                     [] f.pc = "delete" -> Commit(f, World, "sweep_commit")
                     [] f.pc = "sweep_commit" -> Out(Deliver(f), World)
                     [] f.pc = "call" -> Out(Return(f, None), World))

\* async_unload_entry is called on a loaded entry: the service is removed,
\* and async_close closes the connection, which rolls back an open transaction
CallUnload(t) ==
    /\ NextToCall(t)
    /\ hass.service
    /\ LET f == [IdleFrame EXCEPT !.op = "unload"]
           w == [World EXCEPT !.hass.service = FALSE]
       IN Apply(t,
            IF hass.data # "entry"
            THEN Out(Return(f, TRUE),
                     [w EXCEPT !.hass.data = "absent"])
            ELSE IF db = "closed"
            THEN Out(Return(f, TRUE), [w EXCEPT !.hass.data = "absent"])
            ELSE Out([f EXCEPT !.pc = "close", !.calls = << <<"async_close">> >>],
                     [w EXCEPT !.db = "closing",
                               !.rows = IF txn = NoTxn THEN rows ELSE txn[1],
                               !.txn = NoTxn]))

\* async_unload_entry goes on after the close: _db = None, DOMAIN is popped
ResumeUnload(t) ==
    /\ Suspended(t, "unload")
    /\ Apply(t, Out(Return(tasks[t], TRUE),
                    [World EXCEPT !.db = "closed", !.hass.data = "absent"]))

\* Time passes while tasks are suspended
Pass(S) ==
    /\ \E t \in S : t > now /\ now' = t
    /\ UNCHANGED <<db, rows, nextId, options, entryData, registry, tz, hass, tasks, txn,
                   last, streak>>

----------------------------------------------------------------------------
\* Calls of the store in flight together

\* How many calls of the store are made
MaxCalls == 3

\* A record of the message one minute old at the start; the last instant at
\* which it is inside a 5 minute window; and the first at which it is outside
RaceInstants == {At(10, 21, 55, 0, 0), At(10, 21, 59, 0, 0), At(10, 21, 59, 0, 1)}

RaceRows ==
    {NewRow({}, 0, At(10, 21, 54, 0, 0), "Repeat me", None, "INFO", None, TRUE)}

InitRace ==
    /\ db = "open"
    /\ rows = RaceRows
    /\ nextId = 0
    /\ now = At(10, 21, 55, 0, 0)
    /\ options = NoOptions
    /\ entryData = DefaultData
    /\ registry = NoRegistry
    /\ tz = 0
    /\ hass = SetUp
    /\ tasks = [t \in 1..MaxCalls |-> IdleFrame]
    /\ txn = NoTxn
    /\ last = Call("idle", <<>>, None, <<>>)
    /\ streak = [k |-> 0, ok |-> TRUE]

NextRace ==
    \/ \E t \in 1..MaxCalls : CallIsDuplicate(t, "Repeat me", DEDUP_WINDOW)
    \/ \E t \in 1..MaxCalls : ResumeIsDuplicate(t)
    \/ \E t \in 1..MaxCalls :
            CallAddNotification(t, "Repeat me", None, "INFO", None, FALSE)
    \/ \E t \in 1..MaxCalls : ResumeAddNotification(t)
    \/ Pass(RaceInstants)

SpecRace == InitRace /\ [][NextRace]_vars

----------------------------------------------------------------------------
\* Notify handlers in flight together, and with an unload

\* The calls of the service: a message with no data, which is INFO and so
\* notify_with_dedup; the same message as a safety event, always_notify
HandlerInputs ==
    {<<"Repeat me", None, EmptyDict>>,
     <<"Repeat me", "Title", [category |-> "safety"]>>}

\* How many calls are made, of the service and of unload together
MaxHandlers == 2

HandlerInstants == {At(10, 21, 55, 0, 0), At(10, 21, 55, 0, 1)}

\* After async_setup_entry over a new database file, quiet hours switched off
InitHandlers ==
    /\ db = "open"
    /\ rows = {}
    /\ nextId = 0
    /\ now = At(10, 21, 55, 0, 0)
    /\ options = [quiet_hours_enabled |-> FALSE]
    /\ entryData = DefaultData
    /\ registry = NoRegistry
    /\ tz = 0
    /\ hass = SetUp
    /\ tasks = [t \in 1..MaxHandlers |-> IdleFrame]
    /\ txn = NoTxn
    /\ last = Call("idle", <<>>, None, <<>>)
    /\ streak = [k |-> 0, ok |-> TRUE]

NextHandlers ==
    \/ \E t \in 1..MaxHandlers, i \in HandlerInputs : CallNotify(t, i[1], i[2], i[3])
    \/ \E t \in 1..MaxHandlers : ResumeNotify(t)
    \/ \E t \in 1..MaxHandlers : CallUnload(t)
    \/ \E t \in 1..MaxHandlers : ResumeUnload(t)
    \/ Pass(HandlerInstants)

SpecHandlers == InitHandlers /\ [][NextHandlers]_vars

----------------------------------------------------------------------------
\* The notify service over entity ids that have overrides and registry entries

\* call.data["data"]: the entity id and the category, each given or not
EventData(entity_id, category_str) ==
    [k \in (IF entity_id = None THEN {} ELSE {"entity_id"})
            \cup (IF category_str = None THEN {} ELSE {"category"}) |->
        IF k = "entity_id" THEN entity_id ELSE category_str]

\* No entity id, the empty one, one with an override and one with a device
\* class, each disagreeing with what the name classifies as
EventIds == {None, "", "light.living_room", "sensor.hall_motion"}

EventInputs ==
    {<<"Repeat me", None, EventData(e, c)>> : e \in EventIds, c \in {None, "motion"}}

EventInstants == {At(10, 12, 0, 0, 0), At(10, 12, 0, 0, 1)}

InitEvent ==
    /\ db = "open"
    /\ rows = {}
    /\ nextId = 0
    /\ now = At(10, 12, 0, 0, 0)
    /\ options \in ClassifierOptions
    /\ entryData = DefaultData
    /\ registry \in Registries
    /\ tz = 0
    /\ hass = SetUp
    /\ tasks = NoTasks
    /\ txn = NoTxn
    /\ last = Call("initialize", <<>>, None, <<>>)
    /\ streak = [k |-> 0, ok |-> TRUE]

NextEvent ==
    \/ \E i \in EventInputs : NotifyService(i[1], i[2], i[3])
    \/ Tick(EventInstants)

SpecEvent == InitEvent /\ [][NextEvent]_vars

----------------------------------------------------------------------------
\* The notify service, one event at a time, over the dedup windows

\* A repeated message of category device (once per hour), of no category
\* (info: dedup over 5 minutes) and of category safety (always notify), and
\* another message
PipelineInputs ==
    {<<"Repeat me", None, [category |-> "device"]>>,
     <<"Repeat me", None, EmptyDict>>,
     <<"Repeat me", None, [category |-> "safety"]>>,
     <<"Other", None, [category |-> "device"]>>}

\* Noon; 5 minutes later to the tick, and one tick more; 40 minutes later; 60
\* minutes later to the tick, and one tick more; and an instant in quiet hours
PipelineInstants ==
    {At(10, 12, 0, 0, 0), At(10, 12, 5, 0, 0), At(10, 12, 5, 0, 1),
     At(10, 12, 40, 0, 0), At(10, 13, 0, 0, 0), At(10, 13, 0, 0, 1),
     At(10, 22, 30, 0, 0)}

\* The store after a first event "Repeat me" of category device at noon
FirstOccurrence ==
    {NewRow({}, 0, At(10, 12, 0, 0, 0), "Repeat me", None, "DEVICE", None, TRUE)}

\* After async_setup_entry, the store empty or holding the first occurrence
InitPipeline ==
    /\ db = "open"
    /\ rows \in {{}, FirstOccurrence}
    /\ nextId = 0
    /\ now = At(10, 12, 0, 0, 0)
    /\ options = NoOptions
    /\ entryData = DefaultData
    /\ registry = NoRegistry
    /\ tz = 0
    /\ hass = SetUp
    /\ tasks = NoTasks
    /\ txn = NoTxn
    /\ last = Call("initialize", <<>>, None, <<>>)
    /\ streak = [k |-> 0, ok |-> TRUE]

NextPipeline ==
    \/ \E i \in PipelineInputs : NotifyService(i[1], i[2], i[3])
    \/ Tick(PipelineInstants)

SpecPipeline == InitPipeline /\ [][NextPipeline]_vars

----------------------------------------------------------------------------
\* Properties of the delivery policy

\* Quiet hours are enabled and the local time is inside the window
QuietNow ==
    /\ OptionGet(options, "quiet_hours_enabled", DEFAULT_QUIET_HOURS_ENABLED)
    /\ IsQuietHours(now, tz, options)

\* Some record of table s holds message m and is at most w minutes old
RecentlyStored(s, m, w) ==
    \E r \in s : r.message = m /\ now - FromIso(r.timestamp) <= Minutes(w)

\* C1: _should_deliver with behaviour always_notify returns true in every
\* state, makes no dedup lookup and leaves every record as it is.
C1_AlwaysNotify ==
    /\ []((last.op = "should_deliver" /\ last.args[2] = "ALWAYS_NOTIFY") =>
            /\ last.ret = TRUE
            /\ last.calls = <<>>)
    /\ [][(last'.op = "should_deliver" /\ last'.args[2] = "ALWAYS_NOTIFY") =>
            rows' = rows]_vars

\* C1 witness: delivered inside quiet hours with the same message stored
\* within the last 5 minutes
C1_Witness ==
    /\ last.op = "should_deliver"
    /\ last.args[2] = "ALWAYS_NOTIFY"
    /\ last.ret = TRUE
    /\ QuietNow
    /\ RecentlyStored(rows, last.args[3], 5)

\* C2: _should_deliver with behaviour log_only returns false in every state,
\* makes no dedup lookup and leaves the store unchanged.
C2_LogOnly ==
    /\ []((last.op = "should_deliver" /\ last.args[2] = "LOG_ONLY") =>
            /\ last.ret = FALSE
            /\ last.calls = <<>>)
    /\ [][(last'.op = "should_deliver" /\ last'.args[2] = "LOG_ONLY") =>
            rows' = rows]_vars

\* C2 witness: suppressed with quiet hours off and no record of the message
C2_Witness ==
    /\ last.op = "should_deliver"
    /\ last.args[2] = "LOG_ONLY"
    /\ last.ret = FALSE
    /\ ~OptionGet(options, "quiet_hours_enabled", DEFAULT_QUIET_HOURS_ENABLED)
    /\ rows # {}
    /\ \A r \in rows : r.message # last.args[3]

\* C3: for notify_respect_quiet, _should_deliver returns false iff quiet hours
\* are enabled and the local time is inside the quiet window, and true
\* otherwise; it makes no dedup lookup either way.
C3_RespectQuiet ==
    /\ []((last.op = "should_deliver" /\ last.args[2] = "NOTIFY_RESPECT_QUIET") =>
            /\ last.ret = ~QuietNow
            /\ last.calls = <<>>)
    /\ [][(last'.op = "should_deliver" /\ last'.args[2] = "NOTIFY_RESPECT_QUIET") =>
            rows' = rows]_vars

\* C3 witness: delivered outside the window of enabled quiet hours although
\* the same message was stored within the last 5 minutes
C3_Witness ==
    /\ last.op = "should_deliver"
    /\ last.args[2] = "NOTIFY_RESPECT_QUIET"
    /\ last.ret = TRUE
    /\ OptionGet(options, "quiet_hours_enabled", DEFAULT_QUIET_HOURS_ENABLED)
    /\ RecentlyStored(rows, last.args[3], 5)

\* The last call was a _should_deliver that got as far as the dedup step
DedupReached(call) ==
    /\ call.op = "should_deliver"
    /\ \/ call.args[2] = "NOTIFY_ONCE_PER_HOUR"
       \/ call.args[2] = "NOTIFY_WITH_DEDUP" /\ ~QuietNow

\* C4: when the dedup step is reached, _should_deliver calls isDuplicate
\* exactly once, with the event's message and a window of 60 minutes for
\* notify_once_per_hour and of 5 minutes for notify_with_dedup; the call finds
\* a duplicate iff a record of the message is inside that window, and the
\* decision is the negation of what it finds.
C4_DedupStep ==
    /\ []((DedupReached(last) /\ db = "open") =>
            /\ Len(last.calls) = 1
            /\ last.calls[1][1] = last.args[3]
            /\ last.calls[1][2] =
                    (IF last.args[2] = "NOTIFY_ONCE_PER_HOUR" THEN 60 ELSE 5)
            /\ last.ret = ~last.calls[1][3])
    /\ [][(DedupReached(last') /\ db = "open") =>
            last'.calls[1][3] =
                RecentlyStored(rows, last'.args[3],
                               IF last'.args[2] = "NOTIFY_ONCE_PER_HOUR" THEN 60 ELSE 5)]_vars

\* C4 witness: inside quiet hours, notify_once_per_hour is suppressed by a
\* record of the message that is more than 5 minutes old
C4_Witness ==
    /\ DedupReached(last)
    /\ last.args[2] = "NOTIFY_ONCE_PER_HOUR"
    /\ QuietNow
    /\ last.calls = << <<last.args[3], 60, TRUE>> >>
    /\ last.ret = FALSE
    /\ ~RecentlyStored(rows, last.args[3], 5)

\* hour, minute, second and fraction of a time of day
TimeFields(t) == <<HourOf(t), MinuteOf(t), SecondOf(t), FracOf(t)>>

\* x is an earlier time of day than y
TimeBefore(x, y) ==
    \E i \in 1..4 : x[i] < y[i] /\ \A j \in 1..(i - 1) : x[j] = y[j]

\* C5: with start > end, it is quiet iff now >= start or now < end; otherwise
\* it is quiet iff start <= now < end. So start is inclusive, end is
\* exclusive, and a window with start = end is quiet at no time of day.
C5_QuietWindow ==
    last.op = "_is_quiet_hours" =>
        LET cur == TimeFields(LocalTimeOfDay(now, tz))
            s == OptionGet(options, "quiet_hours_start", DEFAULT_QUIET_HOURS_START)
            e == OptionGet(options, "quiet_hours_end", DEFAULT_QUIET_HOURS_END)
            start == <<s[1], s[2], 0, 0>>
            end == <<e[1], e[2], 0, 0>>
        IN /\ last.ret =
                (IF TimeBefore(end, start)
                 THEN ~TimeBefore(cur, start) \/ TimeBefore(cur, end)
                 ELSE ~TimeBefore(cur, start) /\ TimeBefore(cur, end))
           /\ (cur = start /\ start # end) => last.ret
           /\ cur = end => ~last.ret
           /\ start = end => ~last.ret

\* C5 witness: quiet in the last second of a window that spans midnight
C5_Witness ==
    /\ last.op = "_is_quiet_hours"
    /\ last.ret
    /\ options.quiet_hours_start = <<22, 0>>
    /\ options.quiet_hours_end = <<7, 0>>
    /\ LocalTimeOfDay(now, tz) = At(0, 6, 59, 59, 1)

----------------------------------------------------------------------------
\* Properties of the store

Min(a, b) == IF a < b THEN a ELSE b

\* C6: isDuplicate(message, window) returns true iff some stored record has
\* the identical message and a timestamp within window minutes of now; when
\* true, one record, a most recent one of those, has its collapsed_count
\* raised by exactly 1 and no other record changes; when false the store is
\* unchanged. And after an insert of m, the k lookups of m made inside the
\* window before any other insert all return true and leave the inserted
\* record with collapsed_count 1 + k.
C6_IsDuplicateCollapses ==
    /\ [][(last'.op = "is_duplicate" /\ db = "open") =>
            LET message == last'.args[1]
                within == {r \in rows :
                             /\ r.message = message
                             /\ now - FromIso(r.timestamp) <= Minutes(last'.args[2])}
                newest == {r \in within :
                             \A q \in within : FromIso(q.timestamp) <= FromIso(r.timestamp)}
            IN /\ last'.ret = (within # {})
               /\ last'.ret =>
                    \E r \in newest :
                        rows' = (rows \ {r})
                                  \cup {[r EXCEPT !.collapsed_count = @ + 1]}
               /\ ~last'.ret => rows' = rows]_vars
    /\ [](/\ streak.ok
          /\ \A r \in LastInserted(rows) : r.collapsed_count = 1 + streak.k)

\* C6 witness: an insert and two lookups of its message have left the inserted
\* record at 3, beside an older record with the same message still at 1
C6_Witness ==
    /\ last.op = "is_duplicate"
    /\ db = "open"
    /\ last.ret
    /\ streak.k = 2
    /\ \E r \in LastInserted(rows) :
        /\ r.collapsed_count = 3
        /\ \E q \in rows : q # r /\ q.message = r.message /\ q.collapsed_count = 1

\* C7: a stored record is changed only by the collapse increment: every
\* column but collapsed_count keeps the value given at insert, and
\* collapsed_count is at least 1 and never decreases while the record exists.
C7_RecordsOnlyCollapse ==
    /\ [](\A r \in rows : r.collapsed_count >= 1)
    /\ [][\A r \in rows : \A q \in rows' :
            q.id = r.id =>
                /\ [q EXCEPT !.collapsed_count = r.collapsed_count] = r
                /\ q.collapsed_count >= r.collapsed_count
                /\ q.collapsed_count # r.collapsed_count =>
                        /\ q.collapsed_count = r.collapsed_count + 1
                        /\ last'.op \in {"is_duplicate", "should_deliver"}]_vars

\* C7 witness: a record has been collapsed into twice while another was stored
C7_Witness ==
    /\ Cardinality(rows) = 2
    /\ \E r \in rows : r.collapsed_count = 3 /\ r.delivered = 0 /\ r.title # None

\* C8: a record written by addNotification and read back by getRecent has the
\* message, title, category, entity id and delivered flag it was written
\* with, and collapsed_count 1.
C8_RoundTrip ==
    [][(last.op = "add_notification" /\ db = "open" /\ last'.op = "get_recent") =>
        LET given == last.args
            ret == last'.ret
            found == {i \in 1..Len(ret) : ret[i].id = last.ret}
        IN /\ last'.args[1] >= Cardinality(rows) => found # {}
           /\ \A i \in found :
                /\ ret[i].message = given[1]
                /\ ret[i].title = given[2]
                /\ ret[i].category = given[3]
                /\ ret[i].entity_id = given[4]
                /\ ret[i].delivered = given[5]
                /\ ret[i].collapsed_count = 1]_vars

\* C8 witness: a MOTION record with no title and no entity id, not delivered,
\* has been read back
C8_Witness ==
    /\ last.op = "get_recent"
    /\ Len(last.ret) = 1
    /\ last.ret[1].category = "MOTION"
    /\ last.ret[1].title = None
    /\ last.ret[1].entity_id = None
    /\ ~last.ret[1].delivered

\* C9: getRecent(limit) returns min(limit, number of stored records) distinct
\* records, none older than a record it leaves out, newest first; nothing on
\* an empty store; and it leaves the store as it was.
C9_GetRecent ==
    /\ []((last.op = "get_recent" /\ db = "open") =>
            LET ret == last.ret
                ids == {ret[i].id : i \in 1..Len(ret)}
            IN /\ Len(ret) = Min(last.args[1], Cardinality(rows))
               /\ Cardinality(ids) = Len(ret)
               /\ \A i \in 1..Len(ret) : \E r \in rows : RowToRecord(r) = ret[i]
               /\ \A i, j \in 1..Len(ret) :
                    i < j => ret[i].timestamp >= ret[j].timestamp
               /\ \A r \in rows : r.id \notin ids =>
                    \A i \in 1..Len(ret) : FromIso(r.timestamp) <= ret[i].timestamp
               /\ rows = {} => ret = <<>>)
    /\ [][last'.op = "get_recent" => rows' = rows]_vars

\* C9 witness: limit 1 on a store of two records of different age
C9_Witness ==
    /\ last.op = "get_recent"
    /\ db = "open"
    /\ last.args[1] = 1
    /\ Len(last.ret) = 1
    /\ \E r \in rows : FromIso(r.timestamp) < last.ret[1].timestamp

\* C10: getTodayStats counts the stored records with timestamp at or after
\* the start of the current UTC day: all of them, those of category safety,
\* and those delivered.
C10_TodayStats ==
    (last.op = "get_today_stats" /\ db = "open") =>
        LET today == {r \in rows : FromIso(r.timestamp) >= Days(DayOf(now))}
        IN /\ last.ret.total = Cardinality(today)
           /\ last.ret.safety_count =
                Cardinality({r \in today : CategoryOf(r.category) = "SAFETY"})
           /\ last.ret.delivered_count =
                Cardinality({r \in today : BoolOfInt(r.delivered)})
           /\ last.ret.safety_count <= last.ret.total
           /\ last.ret.delivered_count <= last.ret.total
           /\ rows = {} => last.ret = [total |-> 0, safety_count |-> 0,
                                       delivered_count |-> 0]

\* C10 witness: of two stored records, the one from the day before is left out
C10_Witness ==
    /\ last.op = "get_today_stats"
    /\ db = "open"
    /\ Cardinality(rows) = 2
    /\ last.ret.total = 1
    /\ last.ret.safety_count = 1
    /\ last.ret.delivered_count = 0

----------------------------------------------------------------------------
\* Properties of retention and of the store's life cycle

\* C11: right after an addNotification at instant T the store holds no record
\* with a timestamp before T minus 7 days, and holds every record it held
\* before whose timestamp is not before T minus 7 days, and the one just
\* inserted; and records disappear in no other operation.
C11_Retention ==
    /\ [][(last'.op = "add_notification" /\ db = "open") =>
            /\ \A r \in rows' : FromIso(r.timestamp) >= now - Days(7)
            /\ \A r \in rows : FromIso(r.timestamp) >= now - Days(7) => r \in rows'
            /\ \E r \in rows' : r.id = last'.ret /\ FromIso(r.timestamp) = now]_vars
    /\ [][(\E r \in rows : \A q \in rows' : q.id # r.id) =>
            (last'.op = "add_notification" /\ db = "open")]_vars

\* C11 witness: an insert has swept the record that was one tick over seven
\* days old and kept the one that was exactly seven days old
C11_Witness ==
    /\ last.op = "add_notification"
    /\ db = "open"
    /\ Cardinality(rows) = 2
    /\ \E r \in rows : FromIso(r.timestamp) = now - Days(7)
    /\ \A r \in rows : r.id # -1

\* Some operation on the records failed
Failed(call) ==
    /\ call.op \in {"add_notification", "get_recent", "get_today_stats", "is_duplicate"}
    /\ call.raised

\* C12: addNotification, getRecent, getTodayStats and isDuplicate fail exactly
\* when the store is not open (before initialize or after close) and then
\* leave the records as they are; close on a store that is not open changes
\* nothing; and initialize opens the store over the records as they were.
C12_Lifecycle ==
    /\ [][last'.op \in {"add_notification", "get_recent", "get_today_stats",
                        "is_duplicate"} =>
            /\ Failed(last') <=> db # "open"
            /\ Failed(last') => (rows' = rows /\ db' = db /\ nextId' = nextId)]_vars
    /\ [][(last'.op = "close" /\ db # "open") => (db' = db /\ rows' = rows)]_vars
    /\ [][last'.op \in {"initialize", "close"} => rows' = rows]_vars
    /\ [][last'.op = "initialize" => db' = "open"]_vars
    /\ [][last'.op = "close" => db' # "open"]_vars

\* C12 witness: isDuplicate has failed on a store closed after use, over a
\* record of its message stored while the store was open and still there
C12_Witness ==
    /\ last.op = "is_duplicate"
    /\ Failed(last)
    /\ db = "closed"
    /\ \E r \in rows : r.id = 1 /\ r.message = last.args[1] /\ r.collapsed_count = 1

----------------------------------------------------------------------------
\* Properties of classification

\* The keyword sets of const.py
SAFETY_PATTERNS == {"smoke", "co2", "carbon", "leak", "flood", "water_sensor", "gas"}

SECURITY_PATTERNS == {"door", "window", "lock", "alarm", "siren", "garage"}

DEVICE_PATTERNS == {"battery", "offline", "unavailable", "connectivity"}

MOTION_PATTERNS == {"motion", "occupancy", "presence"}

PatternsOf(category) ==
    CASE category = "SAFETY" -> SAFETY_PATTERNS
      [] category = "SECURITY" -> SECURITY_PATTERNS
      [] category = "DEVICE" -> DEVICE_PATTERNS
      [] category = "MOTION" -> MOTION_PATTERNS
      [] category = "INFO" -> {}

Alphabet ==
    {"a", "b", "c", "d", "e", "f", "g", "h", "i", "j", "k", "l", "m", "n", "o", "p",
     "q", "r", "s", "t", "u", "v", "w", "x", "y", "z",
     "A", "B", "C", "D", "E", "F", "G", "H", "I", "J", "K", "L", "M", "N", "O", "P",
     "Q", "R", "S", "T", "U", "V", "W", "X", "Y", "Z"}

\* The positions at which keyword kw occurs in s, in whatever case
Occurrences(kw, s) ==
    LET low == LowerStr(s)
    IN {i \in 1..(Len(s) - Len(kw) + 1) : SubSeq(low, i, i + Len(kw) - 1) = kw}

\* The occurrence of kw at position i of s has no letter right before it and
\* no letter right after it
Standalone(kw, s, i) ==
    /\ i = 1 \/ SubSeq(s, i - 1, i - 1) \notin Alphabet
    /\ i + Len(kw) - 1 = Len(s) \/ SubSeq(s, i + Len(kw), i + Len(kw)) \notin Alphabet

\* The keywords of a category that occur on their own in s
WordsIn(category, s) ==
    IF Falsy(s) THEN {}
    ELSE {kw \in PatternsOf(category) : \E i \in Occurrences(kw, s) : Standalone(kw, s, i)}

\* C15: classify takes the first of override, device class, domain, pattern:
\* an overridden entity id gets its override's category whatever its device
\* class, domain and name; otherwise a device class of the fixed table decides;
\* otherwise a mapped domain; otherwise the pattern result, INFO included.
C15_ResolutionOrder ==
    (last.op = "classify" /\ ~Falsy(last.args[1])) =>
        LET entity_id == last.args[1]
            overridden == /\ "entity_overrides" \in DOMAIN options
                          /\ entity_id \in DOMAIN options.entity_overrides
            device_class ==
                IF entity_id \notin DOMAIN registry THEN None
                ELSE IF registry[entity_id].device_class \notin {None, ""}
                THEN registry[entity_id].device_class
                ELSE registry[entity_id].original_device_class
            domains == {d \in DOMAIN DOMAIN_CATEGORY_MAP :
                          /\ Len(entity_id) > Len(d)
                          /\ SubSeq(entity_id, 1, Len(d) + 1) = d \o "."}
        IN IF overridden
           THEN \A c \in Category :
                    CategoryValue(c) = options.entity_overrides[entity_id] =>
                        (~last.raised /\ last.ret = c)
           ELSE /\ ~last.raised
                /\ last.ret =
                     (IF device_class \in DOMAIN DEVICE_CLASS_CATEGORY_MAP
                      THEN DEVICE_CLASS_CATEGORY_MAP[device_class]
                      ELSE IF domains # {}
                      THEN DOMAIN_CATEGORY_MAP[CHOOSE d \in domains : TRUE]
                      ELSE ClassifyEntity(entity_id))

\* C15 witness: the override (motion) has won over the device class (smoke:
\* safety), the domain (alarm_control_panel: security) and the name
C15_Witness ==
    /\ last.op = "classify"
    /\ last.args[1] = "alarm_control_panel.smoke_alarm"
    /\ "entity_overrides" \in DOMAIN options
    /\ registry # NoRegistry
    /\ last.ret = "MOTION"

\* C16: classify_entity returns the first of SAFETY, SECURITY, DEVICE, MOTION
\* of which a keyword matches in the entity id, and INFO only when no keyword
\* of any of them matches.
C16_PatternPriority ==
    (last.op = "classify_entity" /\ ~Falsy(last.args[1])) =>
        LET s == last.args[1]
        IN /\ last.ret =
                (IF WordsIn("SAFETY", s) # {} THEN "SAFETY"
                 ELSE IF WordsIn("SECURITY", s) # {} THEN "SECURITY"
                 ELSE IF WordsIn("DEVICE", s) # {} THEN "DEVICE"
                 ELSE IF WordsIn("MOTION", s) # {} THEN "MOTION"
                 ELSE "INFO")
           /\ last.ret = "INFO" <=> \A c \in Category : WordsIn(c, s) = {}

\* C16 witness: SAFETY for an id in which a SECURITY keyword comes first
C16_Witness ==
    /\ last.op = "classify_entity"
    /\ last.args[1] = "door_smoke"
    /\ last.ret = "SAFETY"

\* C17: an occurrence of a keyword counts iff the character right before it
\* and the character right after it are not letters, in whatever case it is
\* written: classify_entity returns INFO iff every occurrence of every keyword
\* in the id has a letter next to it.
C17_WordBoundary ==
    (last.op = "classify_entity" /\ ~Falsy(last.args[1])) =>
        LET s == last.args[1]
            all == SAFETY_PATTERNS \cup SECURITY_PATTERNS \cup DEVICE_PATTERNS
                        \cup MOTION_PATTERNS
            embedded(kw, i) ==
                \/ i > 1 /\ SubSeq(s, i - 1, i - 1) \in Alphabet
                \/ i + Len(kw) <= Len(s) /\ SubSeq(s, i + Len(kw), i + Len(kw)) \in Alphabet
        IN last.ret = "INFO" <=>
                \A kw \in all : \A i \in Occurrences(kw, s) : embedded(kw, i)

\* C17 witness: INFO for an id whose only keyword occurrence is the "door"
\* embedded in "indoor"
C17_Witness ==
    /\ last.op = "classify_entity"
    /\ last.args[1] = "indoor_level"
    /\ Occurrences("door", last.args[1]) = {3}
    /\ last.ret = "INFO"

\* C19: classify_entity_with_confidence returns the category classify_entity
\* returns and the confidence min(0.5 + L/20, 1.0), L being the length of the
\* longest keyword of that category that matches in the id; the confidence is
\* 0.0 exactly when no keyword matches and lies in [0, 1]. Confidence is
\* counted in twentieths.
C19_Confidence ==
    last.op = "classify_entity_with_confidence" =>
        LET s == last.args[1]
            category == last.ret[1]
            confidence == last.ret[2]
            lens == {Len(kw) : kw \in WordsIn(category, s)}
            L == CHOOSE l \in lens : \A m \in lens : m <= l
        IN /\ category = ClassifyEntity(s)
           /\ confidence = (IF lens = {} THEN 0
                            ELSE IF 10 + L < 20 THEN 10 + L ELSE 20)
           /\ confidence = 0 <=> \A c \in Category : WordsIn(c, s) = {}
           /\ 0 <= confidence /\ confidence <= 20

\* C20: for an empty or absent entity id, classify and classify_entity return
\* INFO, classify_with_source returns INFO with source "default" and
\* classify_entity_with_confidence INFO with confidence 0.0; none fails, and
\* neither the overrides nor the entity registry is read.
C20_EmptyEntityId ==
    (/\ last.op \in {"classify", "classify_entity", "classify_with_source",
                     "classify_entity_with_confidence"}
     /\ last.args[1] \in {None, ""}) =>
        /\ ~last.raised
        /\ last.calls = <<>>
        /\ last.op \in {"classify", "classify_entity"} => last.ret = "INFO"
        /\ last.op = "classify_with_source" => last.ret = <<"INFO", "default">>
        /\ last.op = "classify_entity_with_confidence" => last.ret = <<"INFO", 0>>

\* C20 witness: source "default" for the empty id although the overrides hold
\* an entry for the empty id and the registry is not empty
C20_Witness ==
    /\ last.op = "classify_with_source"
    /\ last.args[1] = ""
    /\ "entity_overrides" \in DOMAIN options
    /\ "" \in DOMAIN options.entity_overrides
    /\ registry # NoRegistry
    /\ last.ret = <<"INFO", "default">>

----------------------------------------------------------------------------
\* Properties of the notify service

\* The entries of a call's log made to collaborator name
CallsTo(call, name) ==
    LET IsTo(c) == c[1] = name
    IN SelectSeq(call.calls, IsTo)

\* The call was a notify call that got as far as the decision
Decided(call) ==
    call.op = "notify" /\ Len(CallsTo(call, "_should_deliver")) = 1

\* The decision _should_deliver returned in a notify call
Decision(call) == CallsTo(call, "_should_deliver")[1][5]

\* C13: a notify call that reaches its decision while the store is open
\* inserts exactly one new record, with the delivered flag equal to the
\* decision and with collapsed_count 1, whether the decision is to deliver or
\* to suppress.
C13_OneRecordPerCall ==
    [][(Decided(last') /\ db = "open") =>
        LET new == {q \in rows' : \A r \in rows : r.id # q.id}
        IN /\ Cardinality(new) = 1
           /\ \A q \in new :
                /\ q.delivered = (IF Decision(last') THEN 1 ELSE 0)
                /\ q.collapsed_count = 1
                /\ q.message = last'.args[1]]_vars

\* C13 witness: a call suppressed as a duplicate has stored its own record,
\* not delivered, beside the record it was collapsed into
C13_Witness ==
    /\ Decided(last)
    /\ ~Decision(last)
    /\ Len(CallsTo(last, "is_duplicate")) = 1
    /\ \E r \in rows : r.message = last.args[1] /\ r.collapsed_count = 2
    /\ \E q \in rows : q.id = nextId /\ q.delivered = 0 /\ q.collapsed_count = 1

\* C14: in a notify call that reaches its decision with the store open, the
\* delivery sink is invoked exactly once if the decision is true and a
\* delivery target is configured, and not at all otherwise.
C14_SinkOncePerDelivery ==
    (Decided(last) /\ db = "open") =>
        Len(CallsTo(last, "async_call")) =
            (IF /\ Decision(last)
                /\ "delivery_target" \in DOMAIN entryData
                /\ entryData.delivery_target # ""
             THEN 1 ELSE 0)

\* The five behaviour strings
BehaviourStrings ==
    {"always_notify", "notify_respect_quiet", "notify_once_per_hour", "log_only",
     "notify_with_dedup"}

\* The five category strings
CategoryStrings == {"safety", "security", "device", "motion", "info"}

\* C18: classify and classify_with_source fail when the override stored for
\* the entity id is none of the five category strings; and a notify call fails
\* with no record stored and no delivery made when the behaviour configured
\* for the event's category is none of the five behaviour strings.
C18_NoSilentDefault ==
    /\ []((/\ last.op \in {"classify", "classify_with_source"}
           /\ "entity_overrides" \in DOMAIN options
           /\ last.args[1] \in DOMAIN options.entity_overrides
           /\ options.entity_overrides[last.args[1]] \notin CategoryStrings) =>
                last.raised)
    /\ [][(/\ last'.op = "notify"
           /\ "category_behaviors" \in DOMAIN options
           /\ \E c \in CategoryStrings :
                /\ CategoryOf(c) = EventCategory(last'.args[3])
                /\ c \in DOMAIN options.category_behaviors
                /\ options.category_behaviors[c] \notin BehaviourStrings) =>
                    /\ last'.raised
                    /\ last'.calls = <<>>
                    /\ rows' = rows
                    /\ nextId' = nextId]_vars

\* C18 witness: a notify call has failed on the behaviour configured for
\* info, over a store that holds the record of an earlier call
C18_Witness ==
    /\ last.op = "notify"
    /\ last.raised
    /\ last.ret = "ValueError"
    /\ last.calls = <<>>
    /\ options.category_behaviors["info"] = "notify_loudly"
    /\ rows # {}

----------------------------------------------------------------------------
\* Properties of classify_with_source

\* The step of the resolution order that settles a non-empty entity id under
\* options opts and registry reg
FirstStep(opts, reg, entity_id) ==
    LET overridden == /\ "entity_overrides" \in DOMAIN opts
                      /\ entity_id \in DOMAIN opts.entity_overrides
        device_class ==
            IF entity_id \notin DOMAIN reg THEN None
            ELSE IF reg[entity_id].device_class \notin {None, ""}
            THEN reg[entity_id].device_class
            ELSE reg[entity_id].original_device_class
        domains == {d \in DOMAIN DOMAIN_CATEGORY_MAP :
                      /\ Len(entity_id) > Len(d)
                      /\ SubSeq(entity_id, 1, Len(d) + 1) = d \o "."}
    IN IF overridden THEN "override"
       ELSE IF device_class \in DOMAIN DEVICE_CLASS_CATEGORY_MAP THEN "device_class"
       ELSE IF domains # {} THEN "domain"
       ELSE IF \E c \in Category : WordsIn(c, entity_id) # {} THEN "pattern"
       ELSE "default"

\* C21: classify_with_source fails exactly when classify fails; otherwise it
\* returns the category classify returns, with the label of the first step of
\* override, device_class, domain, pattern that settles the id, and "default"
\* when none does or the id is empty or absent, the category then being INFO.
C21_WithSourceAgrees ==
    last.op = "classify_with_source" =>
        LET entity_id == last.args[1]
            category == Classify(options, registry, entity_id)
        IN /\ last.raised <=> category = "ValueError"
           /\ ~last.raised =>
                /\ last.ret[1] = category
                /\ last.ret[2] = (IF Falsy(entity_id) THEN "default"
                                  ELSE FirstStep(options, registry, entity_id))
                /\ last.ret[2] = "default" => last.ret[1] = "INFO"

\* C21 witness: label device_class, and the device class's category, for an
\* id whose domain (lock: security) and name would each settle it too
C21_Witness ==
    /\ last.op = "classify_with_source"
    /\ last.args[1] = "lock.front_door"
    /\ options = NoOptions
    /\ registry # NoRegistry
    /\ last.ret = <<"DEVICE", "device_class">>

----------------------------------------------------------------------------
\* Properties of unload

WsCommands == {"ws_get_notifications", "ws_get_config", "ws_save_config"}

\* C22: when async_unload_entry has completed, the notify service is removed,
\* the store is closed, by exactly one close call, and hass.data holds no
\* runtime data; and from then until the next setup it stays that way and each
\* of the three WebSocket commands sends the not_configured error and nothing
\* else, reads no records and leaves the configuration and the store alone.
C22_Unload ==
    /\ [][last'.op = "unload_entry" =>
            /\ ~hass'.service
            /\ hass'.data = "absent"
            /\ db' = "closed"
            /\ Len(CallsTo(last', "async_close")) = 1
            /\ rows' = rows]_vars
    /\ [][(hass.data = "absent" /\ last'.op # "setup_entry") =>
            /\ hass' = hass
            /\ db' = db]_vars
    /\ [][(hass.data = "absent" /\ last'.op \in WsCommands) =>
            /\ ~last'.raised
            /\ last'.calls = << <<"send_error", "not_configured", "Hush is not configured">> >>
            /\ rows' = rows
            /\ options' = options
            /\ entryData' = entryData]_vars

\* C22 witness: after an unload, a save command carrying a new delivery
\* target has been answered with the error, over a store that holds a record
C22_Witness ==
    /\ last.op = "ws_save_config"
    /\ "delivery_target" \in DOMAIN last.args[1]
    /\ hass.data = "absent"
    /\ ~hass.service
    /\ db = "closed"
    /\ rows # {}
    /\ entryData = DefaultData
    /\ Len(CallsTo(last, "send_error")) = 1

----------------------------------------------------------------------------
\* Properties of the order of the decision's checks

\* C23: for notify_with_dedup, with quiet hours enabled and the local time
\* inside the quiet window, _should_deliver returns false without a call of
\* isDuplicate, and no record changes: no collapsed_count is raised for an
\* event that quiet hours suppress.
C23_QuietBeforeDedup ==
    /\ []((/\ last.op = "should_deliver"
           /\ last.args[2] = "NOTIFY_WITH_DEDUP"
           /\ QuietNow) =>
                /\ ~last.raised
                /\ last.ret = FALSE
                /\ last.calls = <<>>)
    /\ [][(/\ last'.op = "should_deliver"
           /\ last'.args[2] = "NOTIFY_WITH_DEDUP"
           /\ QuietNow) =>
                rows' = rows]_vars

\* C23 witness: suppressed by quiet hours while a record of the same message,
\* stored within the last 5 minutes, still has collapsed_count 1
C23_Witness ==
    /\ last.op = "should_deliver"
    /\ last.args[2] = "NOTIFY_WITH_DEDUP"
    /\ QuietNow
    /\ last.ret = FALSE
    /\ RecentlyStored(rows, last.args[3], 5)
    /\ \A r \in rows : r.message = last.args[3] => r.collapsed_count = 1

----------------------------------------------------------------------------
\* Properties of calls in flight together

\* The sum of collapsed_count - 1 over the records of table S
RECURSIVE Collapsed(_)
Collapsed(S) ==
    IF S = {} THEN 0
    ELSE LET r == CHOOSE x \in S : TRUE
         IN (r.collapsed_count - 1) + Collapsed(S \ {r})

\* The isDuplicate calls that have returned true
ReturnedTrue ==
    {t \in DOMAIN tasks :
        /\ tasks[t].op = "is_duplicate"
        /\ tasks[t].pc = "done"
        /\ ~tasks[t].raised
        /\ tasks[t].hit # {}}

\* The isDuplicate calls suspended after their UPDATE
PastUpdate ==
    {t \in DOMAIN tasks :
        tasks[t].op = "is_duplicate" /\ tasks[t].pc \in {"update", "dup_commit"}}

\* C24: however isDuplicate and addNotification calls interleave at their
\* awaits on the one connection, no record is deleted within the window, the
\* sum of collapsed_count - 1 over the records is the number of isDuplicate
\* calls that have made their UPDATE, which when no call is in flight is the
\* number of calls that returned true; and each UPDATE raises the count of
\* exactly one record, which was there, by exactly 1.
C24_AtomicIncrement ==
    /\ [](Collapsed(rows) = Cardinality(ReturnedTrue) + Cardinality(PastUpdate))
    /\ [][\A t \in DOMAIN tasks :
            (tasks[t].op = "is_duplicate" /\ tasks[t].pc = "select"
                /\ tasks'[t].pc = "update") =>
                    \E r \in rows :
                        rows' = (rows \ {r}) \cup {[r EXCEPT !.collapsed_count = @ + 1]}]_vars
    /\ [][\A r \in rows : \E q \in rows' : q.id = r.id]_vars

\* C24 witness: two isDuplicate calls selected the same record with count 1
\* before either made its UPDATE, an addNotification came in between, and all
\* three have returned: the record's count is 3
C24_Witness ==
    /\ \A t \in DOMAIN tasks : tasks[t].pc = "done" /\ ~tasks[t].raised
    /\ Cardinality(ReturnedTrue) = 2
    /\ \A t \in ReturnedTrue : \A r \in tasks[t].hit : r.id = 0 /\ r.collapsed_count = 1
    /\ \E r \in rows : r.id = 0 /\ r.collapsed_count = 3
    /\ Cardinality(rows) = 2

----------------------------------------------------------------------------
\* Properties of the event's category

\* C25: the category a notify call decides on and stores is the one given in
\* the call data if one is given; else what classify_entity makes of the
\* entity id's name if an entity id is given; else INFO; whatever override,
\* device class or domain the entity id has.
C25_HandlerCategory ==
    [][last'.op = "notify" =>
        LET data == last'.args[3]
            expected == IF "category" \in DOMAIN data THEN CategoryOf(data.category)
                        ELSE IF "entity_id" \in DOMAIN data
                        THEN ClassifyEntity(data.entity_id)
                        ELSE "INFO"
        IN /\ Decided(last')
           /\ CallsTo(last', "_should_deliver")[1][2] = expected
           /\ \E r \in rows' :
                /\ r.id = nextId'
                /\ r.id # nextId
                /\ r.category = CategoryValue(expected)]_vars

\* C25 witness: an event of light.living_room, overridden to safety, stored
\* as info, and one of sensor.hall_motion, whose device class is battery,
\* stored as motion
C25_Witness ==
    /\ "entity_overrides" \in DOMAIN options
    /\ options.entity_overrides["light.living_room"] = "safety"
    /\ "sensor.hall_motion" \in DOMAIN registry
    /\ registry["sensor.hall_motion"].original_device_class = "battery"
    /\ \E r \in rows : r.entity_id = "light.living_room" /\ r.category = "info"
    /\ \E r \in rows : r.entity_id = "sensor.hall_motion" /\ r.category = "motion"

----------------------------------------------------------------------------
\* Properties of the notify pipeline, one event at a time

\* The window an event of the category is judged over with the default
\* behaviors: 60 minutes under notify_once_per_hour, 5 under notify_with_dedup
WindowOfCategory(value) ==
    IF value = "device" THEN 60 ELSE 5

\* The records with the message not older than the window at instant t
WithinWindow(table, t, message, minutes) ==
    {r \in table : r.message = message /\ t - FromIso(r.timestamp) <= Minutes(minutes)}

\* Two delivered records with the same message, the later one judged over a
\* window, are more than that window apart
DeliveredApart(table) ==
    \A r, q \in table :
        /\ r.message = q.message
        /\ r.rowid < q.rowid
        /\ r.delivered = 1
        /\ q.delivered = 1
        /\ q.category \in {"device", "info"}
        => FromIso(q.timestamp) - FromIso(r.timestamp)
                > Minutes(WindowOfCategory(q.category))

\* C26: an event under notify_once_per_hour, or under notify_with_dedup outside
\* quiet hours, is decided deliver exactly when the store, as it is before the
\* event's own record goes in, holds no record with the same message within 60
\* or 5 minutes; and two delivered records with the same message are more than
\* the window apart.
C26_DeliveredIffNoRecent ==
    [][/\ last'.op = "notify" =>
            LET d == CallsTo(last', "_should_deliver")[1]
                minutes == IF d[3] = "NOTIFY_ONCE_PER_HOUR" THEN 60 ELSE 5
                judged == \/ d[3] = "NOTIFY_ONCE_PER_HOUR"
                          \/ (d[3] = "NOTIFY_WITH_DEDUP" /\ ~IsQuietHours(now, tz, options))
            IN judged =>
                /\ d[5] <=> (WithinWindow(rows, now, d[4], minutes) = {})
                /\ \E r \in rows' : r.id = nextId' /\ r.delivered = IntOfBool(d[5])
       /\ DeliveredApart(rows')]_vars

\* C26 witness: the message delivered at noon is delivered again one tick
\* past 60 minutes, and another event with it at that instant is held back
C26_Witness ==
    /\ last.op = "notify"
    /\ now = At(10, 13, 0, 0, 1)
    /\ \E r \in rows : /\ r.message = "Repeat me"
                       /\ FromIso(r.timestamp) = At(10, 12, 0, 0, 0)
                       /\ r.delivered = 1
    /\ \E r \in rows : /\ r.message = "Repeat me"
                       /\ FromIso(r.timestamp) = At(10, 13, 0, 0, 1)
                       /\ r.delivered = 1
    /\ \E r \in rows : /\ r.message = "Repeat me"
                       /\ FromIso(r.timestamp) = At(10, 13, 0, 0, 1)
                       /\ r.delivered = 0

\* The occurrences of the message, and the one stored right before r
SameMessage(table, message) == {r \in table : r.message = message}

Previous(table, r) ==
    {q \in SameMessage(table, r.message) :
        /\ q.rowid < r.rowid
        /\ \A p \in SameMessage(table, r.message) : p.rowid < r.rowid => p.rowid <= q.rowid}

\* C27: when every occurrence of a message is of category device (once per
\* hour) and each but the first came less than 60 minutes after the one
\* before it, delivered or not, the first occurrence is delivered and no
\* other is.
C27_OnlyFirstDelivered ==
    \A r \in rows :
        LET S == SameMessage(rows, r.message)
        IN /\ \A q \in S : q.category = "device"
           /\ \A q \in S : \A p \in Previous(rows, q) :
                FromIso(q.timestamp) - FromIso(p.timestamp) < Minutes(60)
           => (r.delivered = 1 <=> Previous(rows, r) = {})

\* C27 witness: the message delivered at noon is held back 40 minutes later
\* and again one tick past 60 minutes after the delivery
C27_Witness ==
    /\ last.op = "notify"
    /\ \A r \in SameMessage(rows, "Repeat me") : r.category = "device"
    /\ \E r \in rows : /\ r.message = "Repeat me"
                       /\ FromIso(r.timestamp) = At(10, 12, 0, 0, 0)
                       /\ r.delivered = 1
    /\ \E r \in rows : /\ r.message = "Repeat me"
                       /\ FromIso(r.timestamp) = At(10, 12, 40, 0, 0)
                       /\ r.delivered = 0
    /\ \E r \in rows : /\ r.message = "Repeat me"
                       /\ FromIso(r.timestamp) = At(10, 13, 0, 0, 1)
                       /\ r.delivered = 0

\* No two records with the same timestamp
StrictlyIncreasing(table) ==
    \A r, q \in table : r.timestamp = q.timestamp => r = q

\* C28: with events handled one at a time and no two records stored at the
\* same instant, every record's collapsed_count is 1 or 2.
C28_CollapsedOneOrTwo ==
    StrictlyIncreasing(rows) => \A r \in rows : r.collapsed_count \in {1, 2}

\* C28 witness: of three occurrences at three instants the first two were
\* each incremented once, by the occurrence after it, and the last not yet
C28_Witness ==
    /\ last.op = "notify"
    /\ StrictlyIncreasing(rows)
    /\ \E r, q, p \in rows :
        /\ r.message = "Repeat me" /\ q.message = "Repeat me" /\ p.message = "Repeat me"
        /\ r.rowid < q.rowid
        /\ q.rowid < p.rowid
        /\ r.collapsed_count = 2
        /\ q.collapsed_count = 2
        /\ p.collapsed_count = 1

----------------------------------------------------------------------------
\* Properties of notify handlers in flight together

\* The handler of task t is between its first await and its end
InFlight(t) == tasks[t].op = "notify" /\ tasks[t].pc \notin {"idle", "done"}

\* The handler of task t has got True from _should_deliver
DecidedDeliver(t) ==
    \E i \in 1..Len(tasks[t].calls) : tasks[t].calls[i] = <<"_should_deliver", TRUE>>

\* C29: of two notify handlers in flight at once for the same message under
\* notify_with_dedup, quiet hours off, at most one is decided deliver.
C29_AtMostOneDeliver ==
    \A t, u \in DOMAIN tasks :
        /\ t # u
        /\ InFlight(t)
        /\ InFlight(u)
        /\ tasks[t].message = tasks[u].message
        /\ tasks[t].behavior = "NOTIFY_WITH_DEDUP"
        /\ tasks[u].behavior = "NOTIFY_WITH_DEDUP"
        /\ ~OptionGet(options, "quiet_hours_enabled", DEFAULT_QUIET_HOURS_ENABLED)
        => ~(DecidedDeliver(t) /\ DecidedDeliver(u))

\* The handler of task t has called the delivery service
SinkInvoked(t) ==
    \E i \in 1..Len(tasks[t].calls) : tasks[t].calls[i][1] = "async_call"

\* The handler of task t has got the id back from async_add_notification
InsertReturned(t) ==
    \E i \in 1..Len(tasks[t].calls) : tasks[t].calls[i] = <<"add_notification", tasks[t].id>>

\* The record of the event of task t is stored with delivered = 1
StoredDelivered(t) ==
    /\ tasks[t].id # 0
    /\ \E r \in rows : /\ r.id = tasks[t].id
                       /\ r.message = tasks[t].message
                       /\ r.delivered = 1

\* C30: whenever a notify handler has called the delivery service, the record
\* of its event is in the store with delivered = 1, also when the entry is
\* unloaded and the store closed meanwhile; and a handler that raised without
\* async_add_notification having returned has not called the delivery service
\* and raised the store's or the connection's error, whatever the behavior.
C30_NoDeliveryWithoutRecord ==
    \A t \in DOMAIN tasks :
        tasks[t].op = "notify" =>
            /\ SinkInvoked(t) => StoredDelivered(t) /\ InsertReturned(t)
            /\ tasks[t].pc = "done" /\ ~InsertReturned(t) =>
                    /\ tasks[t].raised
                    /\ tasks[t].ret \in {"RuntimeError", "ValueError", "AttributeError",
                                         "KeyError"}
                    /\ ~SinkInvoked(t)

\* C30 witness: a safety event, always_notify, is with the delivery service,
\* its record stored, after the unload closed the store under its handler
C30_Witness ==
    /\ db = "closed"
    /\ hass.data = "absent"
    /\ \E t \in DOMAIN tasks :
        /\ tasks[t].op = "notify"
        /\ tasks[t].behavior = "ALWAYS_NOTIFY"
        /\ tasks[t].pc = "call"
        /\ SinkInvoked(t)
        /\ StoredDelivered(t)

====
